---------------------------- MODULE Spec2Model ----------------------------
(***************************************************************************)
(* Verification model of the sport_analyzer scoreline probability engine   *)
(* (analyzers/poisson_elo.py, analyzers/dixon_coles.py and                 *)
(* analyzers/match_analyzer.py).                                           *)
(*                                                                         *)
(* Numbers.  The program computes in IEEE doubles.  The model computes in  *)
(* decimal fixed point: the integer n stands for the real n / One, with    *)
(* One = 10^8, and every product and quotient is rounded to the nearest    *)
(* unit, as a floating-point operation rounds to the nearest double.  One  *)
(* unit is 1e-8, two orders below the 1e-6 tolerance of the probability    *)
(* sums, and the decimal literals of the program (0.3, 6.0, 0.13, 0.70,    *)
(* the 4-decimal rounding of the reports) are exact in it.  TLC's integers *)
(* are 32 bits wide, so a value must stay below 21.47; the products are    *)
(* split into 10^4 halves for that reason.  A decimal rounding (round(x,   *)
(* 4) and the like) of a value that lies exactly halfway rounds up in the  *)
(* model; Python decides such a tie by the binary expansion of the double. *)
(***************************************************************************)
EXTENDS Integers, Naturals, Sequences, FiniteSets, TLC

\* ------------------------------------------------------------------------
\* Fixed-point arithmetic (the model's stand-in for float64)
\* ------------------------------------------------------------------------

\* The real number 1.0, and the half-width used to split a product.
Half == 100 * 100
One  == Half * Half

Abs(x) == IF x < 0 THEN -x ELSE x
Sgn(x) == IF x < 0 THEN -1 ELSE 1
Max(a, b) == IF a >= b THEN a ELSE b
Min(a, b) == IF a <= b THEN a ELSE b

\* round(n / d) for integers n >= 0, d > 0 (nearest, halves up).
RoundDivNat(n, d) == (n + d \div 2) \div d

\* round(n / d) for any integer n and d > 0: rounds the magnitude.
RoundDiv(n, d) == Sgn(n) * RoundDivNat(Abs(n), d)

\* a * b for a, b >= 0 in fixed point:
\*   a*b = a1*b1*One + (a1*b0 + a0*b1)*Half + a0*b0,  a = a1*Half + a0.
MulNat(a, b) ==
    LET a1  == a \div Half
        a0  == a % Half
        b1  == b \div Half
        b0  == b % Half
        mid == a1 * b0 + a0 * b1
        low == a0 * b0 + One \div 2
    IN  a1 * b1 + (mid + low \div Half) \div Half

\* The float product a * b.
Mul(a, b) == Sgn(a) * Sgn(b) * MulNat(Abs(a), Abs(b))

\* Long division, one decimal digit at a time: the quotient digits of
\* r / d (0 <= r < d) and the last remainder, as <<digits, remainder>>.
RECURSIVE DivDigits(_, _, _)
DivDigits(r, d, n) ==
    IF n = 0 THEN <<0, r>>
    ELSE LET t    == 10 * r
             rest == DivDigits(t % d, d, n - 1)
             pw   == IF n = 8 THEN 10000000 ELSE IF n = 7 THEN 1000000
                     ELSE IF n = 6 THEN 100000 ELSE IF n = 5 THEN 10000
                     ELSE IF n = 4 THEN 1000 ELSE IF n = 3 THEN 100
                     ELSE IF n = 2 THEN 10 ELSE 1
         IN  <<(t \div d) * pw + rest[1], rest[2]>>

\* a / b for a >= 0, 0 < b < 2.147 in fixed point, rounded to nearest.
DivNat(a, b) ==
    LET qr == DivDigits(a % b, b, 8)
    IN  (a \div b) * One + qr[1] + (IF 2 * qr[2] >= b THEN 1 ELSE 0)

\* The float quotient a / b (b # 0).
Div(a, b) == Sgn(a) * Sgn(b) * DivNat(Abs(a), Abs(b))

\* np.clip(x, lo, hi)
Clip(x, lo, hi) == Max(lo, Min(x, hi))

\* round(x, 4) and round(x, 2) and round(x, 1): the nearest multiple of
\* 1e-4, 1e-2 and 1e-1.
Round4(x) == RoundDiv(x, 10000) * 10000
Round2(x) == RoundDiv(x, 1000000) * 1000000
Round1(x) == RoundDiv(x, 10000000) * 10000000

\* exp(-x) for x >= 0: exp(-x) = exp(-x/8)^8, with the Taylor series of
\* exp(-y) for y = x/8 (y < 1 on the rates the program clips to).
RECURSIVE ExpSeries(_, _, _)
ExpSeries(y, term, k) ==
    IF term = 0 \/ k > 16 THEN 0
    ELSE term + ExpSeries(y, RoundDiv(-Mul(term, y), k), k + 1)

ExpNeg(x) ==
    LET y  == RoundDiv(x, 8)
        e1 == ExpSeries(y, One, 1)
        e2 == Mul(e1, e1)
        e4 == Mul(e2, e2)
    IN  Mul(e4, e4)


\* ------------------------------------------------------------------------
\* Sums over vectors and matrices (numpy's .sum())
\* ------------------------------------------------------------------------

\* f[0] + ... + f[n] for a vector f over 0..n (0 for n < 0).
RECURSIVE SumTo(_, _)
SumTo(f, n) == IF n < 0 THEN 0 ELSE f[n] + SumTo(f, n - 1)

\* The shape[0] of a square matrix over 0..n-1.
Shape(m) == Cardinality(DOMAIN m)

\* The index pairs (i, j) of a square matrix m.
Indices(m) == (DOMAIN m) \X (DOMAIN m)

\* Sum of the cells (i, j) of the square matrix m with <<i, j>> in keep.
SumWhere(m, keep) ==
    LET n == Shape(m)
        row(i) == SumTo([j \in 0..(n - 1) |->
                            IF <<i, j>> \in keep THEN m[i][j] ELSE 0], n - 1)
    IN  SumTo([i \in 0..(n - 1) |-> row(i)], n - 1)

\* matrix.sum()
MatrixSum(m) == SumWhere(m, Indices(m))

\* ------------------------------------------------------------------------
\* poisson_elo.py: constants and the probability mass array
\* ------------------------------------------------------------------------

LEAGUE_AVG_HOME == 150000000
LEAGUE_AVG_AWAY == 115000000
HOME_FIELD_K    == 110000000
MAX_GOALS       == 10

\* The mass values pmf[0..max_k] as a sequence, pmf[k] = pmf[k-1]*lam/k,
\* pmf[0] = exp(-lam).
RECURSIVE PmfSeq(_, _, _)
PmfSeq(lam, max_k, acc) ==
    LET k == Len(acc)
    IN  IF k > max_k THEN acc
        ELSE PmfSeq(lam, max_k,
                    Append(acc, RoundDiv(Mul(acc[k], lam), k)))

\* _pmf_array(lam, max_k): exp(k*log(lam) - lam - log(k!)) for k in
\* 0..max_k.  The source evaluates each value in log space; the model
\* evaluates the same quantity lam^k * exp(-lam) / k! by its recurrence.
\* The floor 1e-9 of lam is below the model's unit and stands as 0.
PmfArray(lam, max_k) ==
    LET l   == Max(lam, 0)
        seq == PmfSeq(l, max_k, <<ExpNeg(l)>>)
    IN  [k \in 0..max_k |-> seq[k + 1]]

\* np.outer(pmf_h, pmf_a)
Outer(pmf_h, pmf_a) ==
    [i \in DOMAIN pmf_h |-> [j \in DOMAIN pmf_a |-> Mul(pmf_h[i], pmf_a[j])]]

\* ------------------------------------------------------------------------
\* dixon_coles.py
\* ------------------------------------------------------------------------

\* Mutant of Tau: the factor of (0, 1) written with "+" for "*".
TauPlusForTimes(x, y, lam_h, lam_a, rho) ==
    IF x = 0 /\ y = 0 THEN One - Mul(lam_h, Mul(lam_a, rho))
    ELSE IF x = 0 /\ y = 1 THEN One + (lam_h + rho)
    ELSE IF x = 1 /\ y = 0 THEN One + Mul(lam_a, rho)
    ELSE IF x = 1 /\ y = 1 THEN One - rho
    ELSE One

\* Mutant of Tau: the rates of the (0, 1) and (1, 0) factors exchanged.
TauRatesSwapped(x, y, lam_h, lam_a, rho) ==
    IF x = 0 /\ y = 0 THEN One - Mul(lam_h, Mul(lam_a, rho))
    ELSE IF x = 0 /\ y = 1 THEN One + Mul(lam_a, rho)
    ELSE IF x = 1 /\ y = 0 THEN One + Mul(lam_h, rho)
    ELSE IF x = 1 /\ y = 1 THEN One - rho
    ELSE One

\* _tau(x, y, lam_h, lam_a, rho).  In the (0, 0) factor the product
\* lam_h * lam_a * rho is taken as lam_h * (lam_a * rho), which keeps the
\* intermediate value inside the 32-bit range.
Tau(x, y, lam_h, lam_a, rho) ==
    IF x = 0 /\ y = 0 THEN One - Mul(lam_h, Mul(lam_a, rho))
    ELSE IF x = 0 /\ y = 1 THEN One + Mul(lam_h, rho)
    ELSE IF x = 1 /\ y = 0 THEN One + Mul(lam_a, rho)
    ELSE IF x = 1 /\ y = 1 THEN One - rho
    ELSE One

\* Mutant of CorrectedCell: the floor at 0 left out.
CorrectedCellNoFloor(cell, corr) == Mul(cell, corr)

\* matrix[x, y] = max(0.0, matrix[x, y] * corr)
CorrectedCell(cell, corr) == Max(0, Mul(cell, corr))

\* The loop over range(min(2, max_goals + 1)) in both indices.
ApplyTau(matrix, lam_h, lam_a, max_goals, rho) ==
    LET lim == Min(2, max_goals + 1)
    IN  [x \in DOMAIN matrix |-> [y \in DOMAIN matrix |->
            IF x < lim /\ y < lim
            THEN CorrectedCell(matrix[x][y], Tau(x, y, lam_h, lam_a, rho))
            ELSE matrix[x][y]]]

\* Mutant of Renormalize: the division left out.
RenormalizeSkipped(matrix, total) == matrix

\* Mutant of Renormalize: the guard left out; numpy's 0.0 / 0.0 is nan,
\* which stands here as -1.
RenormalizeUnguarded(matrix, total) ==
    [x \in DOMAIN matrix |-> [y \in DOMAIN matrix |->
        IF total # 0 THEN Div(matrix[x][y], total) ELSE 0 - 1]]

\* if total > 0: matrix /= total
Renormalize(matrix, total) ==
    IF total > 0
    THEN [x \in DOMAIN matrix |-> [y \in DOMAIN matrix |->
             Div(matrix[x][y], total)]]
    ELSE matrix

\* build_dc_matrix(lambda_h, lambda_a, max_goals, rho), with the values it
\* passes through: the raw outer product, the matrix after the tau loop,
\* its total and the returned matrix.
BuildDcMatrix(lambda_h, lambda_a, max_goals, rho) ==
    LET raw   == Outer(PmfArray(lambda_h, max_goals),
                       PmfArray(lambda_a, max_goals))
        corr  == ApplyTau(raw, lambda_h, lambda_a, max_goals, rho)
        total == MatrixSum(corr)
    IN  [raw |-> raw, corr |-> corr, total |-> total,
         matrix |-> Renormalize(corr, total)]


\* ------------------------------------------------------------------------
\* poisson_elo.py: the outcome aggregator and the rate builder
\* ------------------------------------------------------------------------

\* PoissonResult(): every field defaults to 0.0.
DefaultPoissonResult ==
    [home_win |-> 0, draw |-> 0, away_win |-> 0,
     lambda_h |-> 0, lambda_a |-> 0, total_exp |-> 0,
     both_score |-> 0, over_1_5 |-> 0, over_2_5 |-> 0, over_3_5 |-> 0]

\* PoissonResult.best_prob
BestProb(result) == Max(result.home_win, Max(result.draw, result.away_win))

\* Mutant of CalcOver: the threshold taken up to the next whole number of
\* goals.
CalcOverCeiling(matrix, threshold) ==
    LET over == {c \in Indices(matrix) : 10 * (c[1] + c[2]) > threshold + 5}
    IN  Clip(SumWhere(matrix, over), 0, One)

\* _calc_over(matrix, threshold); the threshold is given in tenths of a
\* goal (15 for 1.5), so that idx > threshold reads 10 * (i + j) > 15.
CalcOver(matrix, threshold) ==
    LET over == {c \in Indices(matrix) : 10 * (c[1] + c[2]) > threshold}
    IN  Clip(SumWhere(matrix, over), 0, One)

\* Mutant of CalcBothScore: the mass of the cell (0, 0) not added back.
CalcBothScoreNoOverlap(matrix) ==
    LET n        == Shape(matrix)
        p_home_0 == SumTo(matrix[0], n - 1)
        p_away_0 == SumTo([i \in 0..(n - 1) |-> matrix[i][0]], n - 1)
    IN  Max(0, One - p_home_0 - p_away_0)

\* _calc_both_score(matrix)
CalcBothScore(matrix) ==
    LET n        == Shape(matrix)
        p_home_0 == SumTo(matrix[0], n - 1)
        p_away_0 == SumTo([i \in 0..(n - 1) |-> matrix[i][0]], n - 1)
        p_both_0 == matrix[0][0]
    IN  Max(0, One - p_home_0 - p_away_0 + p_both_0)

\* The cells of the diagonal, of np.tril(matrix, k=-1) and of
\* np.triu(matrix, k=1).
Diagonal(m) == {c \in Indices(m) : c[1] = c[2]}
Lower(m)    == {c \in Indices(m) : c[1] > c[2]}
Upper(m)    == {c \in Indices(m) : c[1] < c[2]}

\* Mutant of OutcomeTriple: the two triangles exchanged.
OutcomeTripleTransposed(matrix) ==
    LET p_draw == SumWhere(matrix, Diagonal(matrix))
        p_home == SumWhere(matrix, Upper(matrix))
        p_away == SumWhere(matrix, Lower(matrix))
        sum    == p_home + p_draw + p_away
        total  == IF sum # 0 THEN sum ELSE One
    IN  [home_win |-> Round4(Div(p_home, total)),
         draw     |-> Round4(Div(p_draw, total)),
         away_win |-> Round4(Div(p_away, total))]

\* Mutant of OutcomeTriple: p_draw left out of the total.
OutcomeTripleDrawOmitted(matrix) ==
    LET p_draw == SumWhere(matrix, Diagonal(matrix))
        p_home == SumWhere(matrix, Lower(matrix))
        p_away == SumWhere(matrix, Upper(matrix))
        sum    == p_home + p_away
        total  == IF sum # 0 THEN sum ELSE One
    IN  [home_win |-> Round4(Div(p_home, total)),
         draw     |-> Round4(Div(p_draw, total)),
         away_win |-> Round4(Div(p_away, total))]

\* The diagonal / tril(k=-1) / triu(k=1) sums and their division by
\* "total = p_home + p_draw + p_away or 1.0", each rounded to 4 decimals.
OutcomeTriple(matrix) ==
    LET p_draw == SumWhere(matrix, Diagonal(matrix))
        p_home == SumWhere(matrix, Lower(matrix))
        p_away == SumWhere(matrix, Upper(matrix))
        sum    == p_home + p_draw + p_away
        total  == IF sum # 0 THEN sum ELSE One
    IN  [home_win |-> Round4(Div(p_home, total)),
         draw     |-> Round4(Div(p_draw, total)),
         away_win |-> Round4(Div(p_away, total))]

\* 10 ** (-d / 400) for an integer d >= 0, as exp(-d * ln(10) / 400) with
\* ln(10) / 400 = 0.0057564627.
Pow10Neg(d) == ExpNeg(d * 575646 + (d * 27) \div 100)

\* _elo_expected_home(elo_h, elo_a) = 1 / (1 + 10 ** ((elo_a - elo_h - 100) / 400)).
\* For a positive exponent e the model takes the equal value
\* 10**(-e) / (10**(-e) + 1), whose terms stay below 2.
EloExpectedHome(elo_h, elo_a) ==
    LET d == elo_a - elo_h - 100
    IN  IF d <= 0 THEN Div(One, One + Pow10Neg(-d))
        ELSE Div(Pow10Neg(d), Pow10Neg(d) + One)

\* _weather_home_factor(weather); impact_score is a number of points 0..100.
WeatherHomeFactor(weather) ==
    LET reduction == Mul(weather.impact_score * (One \div 100),
                         HOME_FIELD_K - One)
    IN  Max(One, HOME_FIELD_K - reduction)

\* _form_adjustment(form_score) = 1 + (form_score - 50) / 500; form_score is
\* held in tenths of a point (500 for 50.0).
FormAdjustment(form_score) == One + (form_score - 500) * (One \div 5000)

\* The bounds of np.clip in calculate_poisson, and the floor of the goal
\* averages.
LAMBDA_MIN == 30000000
LAMBDA_MAX == 600000000
GOALS_MIN  == 30000000

\* lambda_h and lambda_a of calculate_poisson as clipped (lines 96-103).
ClippedRates(home, away, weather, neutral_field) ==
    LET home_field == IF neutral_field THEN One ELSE WeatherHomeFactor(weather)
        elo_exp    == EloExpectedHome(home.elo, away.elo)
        elo_adj    == One + Mul(elo_exp - One \div 2, 30000000)
        form_adj_h == FormAdjustment(home.form_score)
        form_adj_a == FormAdjustment(away.form_score)
        attack_h   == Div(Max(home.avg_goals_scored, GOALS_MIN), LEAGUE_AVG_HOME)
        attack_a   == Div(Max(away.avg_goals_scored, GOALS_MIN), LEAGUE_AVG_AWAY)
        defense_h  == Div(Max(home.avg_goals_conceded, GOALS_MIN), LEAGUE_AVG_HOME)
        defense_a  == Div(Max(away.avg_goals_conceded, GOALS_MIN), LEAGUE_AVG_AWAY)
    IN  [h |-> Clip(Mul(Mul(Mul(Mul(Mul(LEAGUE_AVG_HOME, attack_h), defense_a),
                                home_field), elo_adj), form_adj_h),
                    LAMBDA_MIN, LAMBDA_MAX),
         a |-> Clip(Mul(Div(Div(Mul(Mul(LEAGUE_AVG_AWAY, attack_a), defense_h),
                                home_field), elo_adj), form_adj_a),
                    LAMBDA_MIN, LAMBDA_MAX)]

\* Mutant of H2hNudge: the band [0.35, 0.55] taken without its ends.
H2hNudgeOpenBand(rates, h2h) ==
    LET rate  == h2h.home_win_pct * (One \div 100)
        blend == 12000000
    IN  IF h2h.matches >= 3 /\ rate >= 55000000
        THEN [h |-> Mul(rates.h, One + blend),
              a |-> Mul(rates.a, One - Mul(blend, One \div 2))]
        ELSE IF h2h.matches >= 3 /\ rate <= 35000000
        THEN [h |-> Mul(rates.h, One - blend),
              a |-> Mul(rates.a, One + Mul(blend, One \div 2))]
        ELSE rates

\* The head-to-head nudge (lines 105-113): h2h.get("matches", 0) >= 3, and
\* rate = home_win_pct / 100 against 0.55 and 0.35; blend = 0.12.
\* home_win_pct is a number of percent.
H2hNudge(rates, h2h) ==
    LET rate  == h2h.home_win_pct * (One \div 100)
        blend == 12000000
    IN  IF h2h.matches >= 3 /\ rate > 55000000
        THEN [h |-> Mul(rates.h, One + blend),
              a |-> Mul(rates.a, One - Mul(blend, One \div 2))]
        ELSE IF h2h.matches >= 3 /\ rate < 35000000
        THEN [h |-> Mul(rates.h, One - blend),
              a |-> Mul(rates.a, One + Mul(blend, One \div 2))]
        ELSE rates

\* The rates calculate_poisson builds its matrix from.
PoissonRates(home, away, weather, h2h, neutral_field) ==
    H2hNudge(ClippedRates(home, away, weather, neutral_field), h2h)

\* calculate_poisson(home, away, weather, h2h, neutral_field): the
\* PoissonResult it returns.
CalculatePoisson(home, away, weather, h2h, neutral_field) ==
    LET rates  == PoissonRates(home, away, weather, h2h, neutral_field)
        matrix == Outer(PmfArray(rates.h, MAX_GOALS), PmfArray(rates.a, MAX_GOALS))
        triple == OutcomeTriple(matrix)
    IN  [home_win   |-> triple.home_win,
         draw       |-> triple.draw,
         away_win   |-> triple.away_win,
         lambda_h   |-> Round2(rates.h),
         lambda_a   |-> Round2(rates.a),
         total_exp  |-> Round2(rates.h + rates.a),
         both_score |-> Round4(CalcBothScore(matrix)),
         over_1_5   |-> Round4(CalcOver(matrix, 15)),
         over_2_5   |-> Round4(CalcOver(matrix, 25)),
         over_3_5   |-> Round4(CalcOver(matrix, 35))]

\* confidence_level(result): pct = round(best_prob * 100, 1), held in
\* tenths of a percent (600 for 60.0), and its label.
ConfidencePct(result) == RoundDiv(BestProb(result), 100000)

ConfidenceLabel(pct) ==
    IF pct >= 600 THEN "high"
    ELSE IF pct >= 480 THEN "medium"
    ELSE "low"

ConfidenceLevel(result) ==
    LET pct == ConfidencePct(result)
    IN  <<pct, ConfidenceLabel(pct)>>

\* ------------------------------------------------------------------------
\* match_analyzer.py
\* ------------------------------------------------------------------------

\* MatchAnalyzer._apply_dc_correction(poisson, dc_matrix): overwrites the
\* seven probabilities of the result and keeps its rates.
ApplyDcCorrection(poisson, dc_matrix) ==
    LET triple == OutcomeTriple(dc_matrix)
    IN  [poisson EXCEPT
            !.home_win   = triple.home_win,
            !.draw       = triple.draw,
            !.away_win   = triple.away_win,
            !.both_score = Round4(CalcBothScore(dc_matrix)),
            !.over_1_5   = Round4(CalcOver(dc_matrix, 15)),
            !.over_2_5   = Round4(CalcOver(dc_matrix, 25)),
            !.over_3_5   = Round4(CalcOver(dc_matrix, 35))]

\* The 0.33 that stands in for a missing outcome, in ml_probs.get(key, 0.33)
\* and in predict.
ML_DEFAULT == 33000000

\* The dict MLPredictor.predict builds from predict_proba: probs holds the
\* probability of each outcome, classes the model's classes_ (0 away win,
\* 1 draw, 2 home win); an outcome whose class the model lacks gets 0.33.
PredictResult(classes, probs) ==
    [away_win |-> IF 0 \in classes THEN probs.away_win ELSE ML_DEFAULT,
     draw     |-> IF 1 \in classes THEN probs.draw ELSE ML_DEFAULT,
     home_win |-> IF 2 \in classes THEN probs.home_win ELSE ML_DEFAULT,
     source   |-> "ml"]

\* The value None of an absent classifier result (a record, so that it
\* compares with the triples).
None == [none |-> TRUE]

\* The weights w_p, w_m of the blend.
W_P == 70000000
W_M == 30000000

\* ml_probs.get(key, 0.33)
Get(ml_probs, key) ==
    IF key \in DOMAIN ml_probs THEN ml_probs[key] ELSE ML_DEFAULT

\* Mutant of Blend: the two weights exchanged.
BlendWeightsSwapped(p, m) == Mul(W_M, p) + Mul(W_P, m)

\* One blended, unnormalised outcome: w_p * matrix + w_m * classifier.
Blend(p, m) == Mul(W_P, p) + Mul(W_M, m)

\* Mutant of Ensemble: no test for None, an absent result is blended as a
\* dict without keys.
EnsembleNoneBlended(poisson, ml_probs) ==
    LET home == Blend(poisson.home_win, Get(ml_probs, "home_win"))
        draw == Blend(poisson.draw, Get(ml_probs, "draw"))
        away == Blend(poisson.away_win, Get(ml_probs, "away_win"))
        sum  == home + draw + away
        tot  == IF sum # 0 THEN sum ELSE One
    IN  [home_win |-> Round4(Div(home, tot)),
         draw     |-> Round4(Div(draw, tot)),
         away_win |-> Round4(Div(away, tot)),
         source   |-> "poisson+dc+ml"]

\* MatchAnalyzer._ensemble(poisson, ml_probs)
Ensemble(poisson, ml_probs) ==
    IF ml_probs = None
    THEN [home_win |-> poisson.home_win,
          draw     |-> poisson.draw,
          away_win |-> poisson.away_win,
          source   |-> "poisson+dc"]
    ELSE LET home == Blend(poisson.home_win, Get(ml_probs, "home_win"))
             draw == Blend(poisson.draw, Get(ml_probs, "draw"))
             away == Blend(poisson.away_win, Get(ml_probs, "away_win"))
             sum  == home + draw + away
             tot  == IF sum # 0 THEN sum ELSE One
         IN  [home_win |-> Round4(Div(home, tot)),
              draw     |-> Round4(Div(draw, tot)),
              away_win |-> Round4(Div(away, tot)),
              source   |-> "poisson+dc+ml"]


\* ------------------------------------------------------------------------
\* utils/team_normalizer.py
\* ------------------------------------------------------------------------
\* A name is a sequence of characters, each character a string. The letters
\* outside ASCII are written by a name of their own: "oe", "ue" ("OE", "UE")
\* for o and u with diaeresis, "cy_a", "cy_v", ... ("CY_A", "CY_V", ...) for
\* the Cyrillic letters. The only whitespace is the space.

\* The lowercase letters and, at the same index, their uppercase forms.
LowerLetters ==
    <<"a", "b", "c", "d", "e", "f", "g", "h", "i", "j", "k", "l", "m",
      "n", "o", "p", "q", "r", "s", "t", "u", "v", "w", "x", "y", "z",
      "oe", "ue",
      "cy_a", "cy_v", "cy_d", "cy_e", "cy_z", "cy_i", "cy_k", "cy_l",
      "cy_m", "cy_n", "cy_o", "cy_p", "cy_r", "cy_s", "cy_t", "cy_ts">>
UpperLetters ==
    <<"A", "B", "C", "D", "E", "F", "G", "H", "I", "J", "K", "L", "M",
      "N", "O", "P", "Q", "R", "S", "T", "U", "V", "W", "X", "Y", "Z",
      "OE", "UE",
      "CY_A", "CY_V", "CY_D", "CY_E", "CY_Z", "CY_I", "CY_K", "CY_L",
      "CY_M", "CY_N", "CY_O", "CY_P", "CY_R", "CY_S", "CY_T", "CY_TS">>

IsLower(c) == \E i \in DOMAIN LowerLetters : LowerLetters[i] = c
IsUpper(c) == \E i \in DOMAIN UpperLetters : UpperLetters[i] = c

\* Is c a character of a word (\w): anything but space and punctuation.
IsWord(c) == c \notin {" ", ".", ",", "-", "&"}

ToLower(c) ==
    IF IsUpper(c)
    THEN LowerLetters[CHOOSE i \in DOMAIN UpperLetters : UpperLetters[i] = c]
    ELSE c
ToUpper(c) ==
    IF IsLower(c)
    THEN UpperLetters[CHOOSE i \in DOMAIN LowerLetters : LowerLetters[i] = c]
    ELSE c

\* str.lower(), str.upper()
StrLower(s) == [i \in 1..Len(s) |-> ToLower(s[i])]
StrUpper(s) == [i \in 1..Len(s) |-> ToUpper(s[i])]

\* str.isupper(): a cased character, and no lowercase one.
StrIsUpper(s) ==
    /\ \E i \in 1..Len(s) : IsUpper(s[i])
    /\ \A i \in 1..Len(s) : ~IsLower(s[i])

\* str.capitalize(): the first character uppercased, the rest lowercased.
Capitalize(s) ==
    IF s = << >> THEN s ELSE <<ToUpper(s[1])>> \o StrLower(Tail(s))

\* The first index from i on at which s has no character of the set, and the
\* last index down from i likewise.
RECURSIVE SkipRight(_, _, _)
SkipRight(s, i, chars) ==
    IF i <= Len(s) /\ s[i] \in chars THEN SkipRight(s, i + 1, chars) ELSE i
RECURSIVE SkipLeft(_, _, _)
SkipLeft(s, i, chars) ==
    IF i >= 1 /\ s[i] \in chars THEN SkipLeft(s, i - 1, chars) ELSE i

\* str.strip(chars)
StripChars(s, chars) ==
    SubSeq(s, SkipRight(s, 1, chars), SkipLeft(s, Len(s), chars))

\* str.strip()
Strip(s) == StripChars(s, {" "})

\* str.split(): the maximal runs without a space.
RECURSIVE WordEnd(_, _)
WordEnd(s, i) ==
    IF i <= Len(s) /\ s[i] # " " THEN WordEnd(s, i + 1) ELSE i
RECURSIVE SplitFrom(_, _)
SplitFrom(s, i) ==
    LET b == SkipRight(s, i, {" "})
        e == WordEnd(s, b)
    IN  IF b > Len(s) THEN << >>
        ELSE <<SubSeq(s, b, e - 1)>> \o SplitFrom(s, e)
Split(s) == SplitFrom(s, 1)

\* " ".join(words)
RECURSIVE Join(_)
Join(words) ==
    IF words = << >> THEN << >>
    ELSE IF Len(words) = 1 THEN words[1]
    ELSE words[1] \o <<" ">> \o Join(Tail(words))

\* _ABBR
ABBR ==
    {<<"f", "c">>, <<"c", "f">>, <<"s", "c">>, <<"a", "s">>, <<"a", "c">>,
     <<"r", "c">>, <<"s", "d">>, <<"g", "d">>, <<"f", "k">>, <<"s", "k">>,
     <<"b", "k">>, <<"i", "f">>, <<"r", "b">>, <<"s", "b">>, <<"s", "v">>,
     <<"b", "v">>, <<"v", "f">>}

\* One word of _to_title.
TitleWord(word) ==
    LET core == StrLower(StripChars(word, {"."}))
    IN  IF core \in ABBR THEN StrUpper(word)
        ELSE IF StrIsUpper(word) /\ Len(word) > 1 THEN word
        ELSE Capitalize(word)

\* _to_title(s)
ToTitle(s) ==
    LET words == Split(s)
    IN  Join([i \in 1..Len(words) |-> TitleWord(words[i])])

\* The alternatives of the group of _SUFFIX_PATTERN, in lower case:
\* x\.?y\.? for seven pairs of letters, s\.?a\.?d, s\.?p\.?a, and five
\* plain ones.
SuffixAlternatives ==
    LET pairs == {<<"f", "c">>, <<"c", "f">>, <<"s", "c">>, <<"a", "s">>,
                  <<"a", "c">>, <<"r", "c">>, <<"s", "d">>}
        trios == {<<"s", "a", "d">>, <<"s", "p", "a">>}
    IN  UNION {{<<t[1], t[2]>>, <<t[1], ".", t[2]>>,
                <<t[1], t[2], ".">>, <<t[1], ".", t[2], ".">>} : t \in pairs}
        \cup
        UNION {{<<t[1], t[2], t[3]>>, <<t[1], ".", t[2], t[3]>>,
                <<t[1], t[2], ".", t[3]>>, <<t[1], ".", t[2], ".", t[3]>>} : t \in trios}
        \cup
        {<<"f", "k">>, <<"s", "k">>, <<"b", "k">>, <<"g", "d">>, <<"s", "p", "a">>}

\* \b at the gap before index i of s: a word character on exactly one side.
Boundary(s, i) ==
    LET before == i > 1 /\ IsWord(s[i - 1])
        after  == i <= Len(s) /\ IsWord(s[i])
    IN  before # after

\* Does _SUFFIX_PATTERN (IGNORECASE; ls is the lowercased string) match
\* from index p to the end: ,? \s* \b (alternative) \b \.? \s* $
SuffixMatchAt(ls, p) ==
    LET q1 == IF ls[p] = "," THEN p + 1 ELSE p
        q2 == SkipRight(ls, q1, {" "})
    IN  /\ Boundary(ls, q2)
        /\ \E t \in SuffixAlternatives :
              LET e  == q2 + Len(t)
                  e2 == IF e <= Len(ls) /\ ls[e] = "." THEN e + 1 ELSE e
              IN  /\ e - 1 <= Len(ls)
                  /\ SubSeq(ls, q2, e - 1) = t
                  /\ Boundary(ls, e)
                  /\ SkipRight(ls, e2, {" "}) = Len(ls) + 1

\* strip_legal_suffix(name): the leftmost match is cut, the rest stripped.
StripLegalSuffix(name) ==
    LET ls      == StrLower(name)
        matches == {p \in 1..Len(name) : SuffixMatchAt(ls, p)}
    IN  IF matches = {} THEN Strip(name)
        ELSE Strip(SubSeq(name, 1,
                          (CHOOSE p \in matches : \A r \in matches : p <= r) - 1))

\* _ALIASES: the pairs <<key, canonical name>>.
ALIASES ==
    {
     <<<<"m","a","n"," ","c","i","t","y">>,
       <<"M","a","n","c","h","e","s","t","e","r"," ","C","i","t","y">>>>,
     <<<<"m","a","n"," ","u","t","d">>,
       <<"M","a","n","c","h","e","s","t","e","r"," ","U","n","i","t","e","d">>>>,
     <<<<"m","a","n"," ","u","n","i","t","e","d">>,
       <<"M","a","n","c","h","e","s","t","e","r"," ","U","n","i","t","e","d">>>>,
     <<<<"m","a","n","c","h","e","s","t","e","r"," ","u","t","d">>,
       <<"M","a","n","c","h","e","s","t","e","r"," ","U","n","i","t","e","d">>>>,
     <<<<"s","p","u","r","s">>,
       <<"T","o","t","t","e","n","h","a","m"," ","H","o","t","s","p","u","r">>>>,
     <<<<"t","o","t","t","e","n","h","a","m">>,
       <<"T","o","t","t","e","n","h","a","m"," ","H","o","t","s","p","u","r">>>>,
     <<<<"w","o","l","v","e","s">>,
       <<"W","o","l","v","e","r","h","a","m","p","t","o","n"," ","W","a","n","d","e","r","e","r","s">>>>,
     <<<<"n","e","w","c","a","s","t","l","e">>,
       <<"N","e","w","c","a","s","t","l","e"," ","U","n","i","t","e","d">>>>,
     <<<<"s","a","i","n","t","s">>,
       <<"S","o","u","t","h","a","m","p","t","o","n">>>>,
     <<<<"h","a","m","m","e","r","s">>,
       <<"W","e","s","t"," ","H","a","m"," ","U","n","i","t","e","d">>>>,
     <<<<"w","e","s","t"," ","h","a","m">>,
       <<"W","e","s","t"," ","H","a","m"," ","U","n","i","t","e","d">>>>,
     <<<<"f","o","x","e","s">>,
       <<"L","e","i","c","e","s","t","e","r"," ","C","i","t","y">>>>,
     <<<<"l","e","i","c","e","s","t","e","r">>,
       <<"L","e","i","c","e","s","t","e","r"," ","C","i","t","y">>>>,
     <<<<"v","i","l","l","a">>,
       <<"A","s","t","o","n"," ","V","i","l","l","a">>>>,
     <<<<"v","i","l","l","a","n","s">>,
       <<"A","s","t","o","n"," ","V","i","l","l","a">>>>,
     <<<<"t","o","f","f","e","e","s">>,
       <<"E","v","e","r","t","o","n">>>>,
     <<<<"g","u","n","n","e","r","s">>,
       <<"A","r","s","e","n","a","l">>>>,
     <<<<"r","e","d","s">>,
       <<"L","i","v","e","r","p","o","o","l">>>>,
     <<<<"b","r","i","g","h","t","o","n">>,
       <<"B","r","i","g","h","t","o","n"," ","&"," ","H","o","v","e"," ","A","l","b","i","o","n">>>>,
     <<<<"p","a","l","a","c","e">>,
       <<"C","r","y","s","t","a","l"," ","P","a","l","a","c","e">>>>,
     <<<<"s","h","e","f","f","i","e","l","d"," ","u","t","d">>,
       <<"S","h","e","f","f","i","e","l","d"," ","U","n","i","t","e","d">>>>,
     <<<<"s","h","e","f","f"," ","u","t","d">>,
       <<"S","h","e","f","f","i","e","l","d"," ","U","n","i","t","e","d">>>>,
     <<<<"s","h","e","f","f","i","e","l","d"," ","w","e","d">>,
       <<"S","h","e","f","f","i","e","l","d"," ","W","e","d","n","e","s","d","a","y">>>>,
     <<<<"w","e","d","n","e","s","d","a","y">>,
       <<"S","h","e","f","f","i","e","l","d"," ","W","e","d","n","e","s","d","a","y">>>>,
     <<<<"f","o","r","e","s","t">>,
       <<"N","o","t","t","i","n","g","h","a","m"," ","F","o","r","e","s","t">>>>,
     <<<<"n","o","t","t","m"," ","f","o","r","e","s","t">>,
       <<"N","o","t","t","i","n","g","h","a","m"," ","F","o","r","e","s","t">>>>,
     <<<<"l","u","t","o","n">>,
       <<"L","u","t","o","n"," ","T","o","w","n">>>>,
     <<<<"b","o","r","o">>,
       <<"M","i","d","d","l","e","s","b","r","o","u","g","h">>>>,
     <<<<"a","f","c"," ","b","o","u","r","n","e","m","o","u","t","h">>,
       <<"B","o","u","r","n","e","m","o","u","t","h">>>>,
     <<<<"b","o","u","r","n","e","m","o","u","t","h">>,
       <<"B","o","u","r","n","e","m","o","u","t","h">>>>,
     <<<<"a","f","c"," ","w","i","m","b","l","e","d","o","n">>,
       <<"A","F","C"," ","W","i","m","b","l","e","d","o","n">>>>,
     <<<<"b","a","r","c","a">>,
       <<"F","C"," ","B","a","r","c","e","l","o","n","a">>>>,
     <<<<"b","a","r","c","e","l","o","n","a">>,
       <<"F","C"," ","B","a","r","c","e","l","o","n","a">>>>,
     <<<<"a","t","l","e","t","i","c","o">>,
       <<"A","t","l","e","t","i","c","o"," ","M","a","d","r","i","d">>>>,
     <<<<"a","t","l","e","t","i","c","o"," ","m","a","d","r","i","d">>,
       <<"A","t","l","e","t","i","c","o"," ","M","a","d","r","i","d">>>>,
     <<<<"a","t","l","e","t","i">>,
       <<"A","t","l","e","t","i","c","o"," ","M","a","d","r","i","d">>>>,
     <<<<"b","e","t","i","s">>,
       <<"R","e","a","l"," ","B","e","t","i","s">>>>,
     <<<<"s","e","v","i","l","l","a">>,
       <<"S","e","v","i","l","l","a">>>>,
     <<<<"c","e","l","t","a">>,
       <<"C","e","l","t","a"," ","V","i","g","o">>>>,
     <<<<"s","o","c","i","e","d","a","d">>,
       <<"R","e","a","l"," ","S","o","c","i","e","d","a","d">>>>,
     <<<<"b","i","l","b","a","o">>,
       <<"A","t","h","l","e","t","i","c"," ","C","l","u","b">>>>,
     <<<<"a","t","h","l","e","t","i","c"," ","b","i","l","b","a","o">>,
       <<"A","t","h","l","e","t","i","c"," ","C","l","u","b">>>>,
     <<<<"v","i","l","l","a","r","r","e","a","l">>,
       <<"V","i","l","l","a","r","r","e","a","l">>>>,
     <<<<"f","c","b">>,
       <<"B","a","y","e","r","n"," ","M","u","n","i","c","h">>>>,
     <<<<"b","a","y","e","r","n">>,
       <<"B","a","y","e","r","n"," ","M","u","n","i","c","h">>>>,
     <<<<"f","c"," ","b","a","y","e","r","n">>,
       <<"B","a","y","e","r","n"," ","M","u","n","i","c","h">>>>,
     <<<<"f","c"," ","b","a","y","e","r","n"," ","m","ue","n","c","h","e","n">>,
       <<"B","a","y","e","r","n"," ","M","u","n","i","c","h">>>>,
     <<<<"f","c"," ","b","a","y","e","r","n"," ","m","u","n","i","c","h">>,
       <<"B","a","y","e","r","n"," ","M","u","n","i","c","h">>>>,
     <<<<"b","v","b">>,
       <<"B","o","r","u","s","s","i","a"," ","D","o","r","t","m","u","n","d">>>>,
     <<<<"d","o","r","t","m","u","n","d">>,
       <<"B","o","r","u","s","s","i","a"," ","D","o","r","t","m","u","n","d">>>>,
     <<<<"g","l","a","d","b","a","c","h">>,
       <<"B","o","r","u","s","s","i","a"," ","M","oe","n","c","h","e","n","g","l","a","d","b","a","c","h">>>>,
     <<<<"m","g","l","a","d","b","a","c","h">>,
       <<"B","o","r","u","s","s","i","a"," ","M","oe","n","c","h","e","n","g","l","a","d","b","a","c","h">>>>,
     <<<<"l","e","v","e","r","k","u","s","e","n">>,
       <<"B","a","y","e","r"," ","L","e","v","e","r","k","u","s","e","n">>>>,
     <<<<"b","a","y","e","r">>,
       <<"B","a","y","e","r"," ","L","e","v","e","r","k","u","s","e","n">>>>,
     <<<<"f","r","a","n","k","f","u","r","t">>,
       <<"E","i","n","t","r","a","c","h","t"," ","F","r","a","n","k","f","u","r","t">>>>,
     <<<<"e","i","n","t","r","a","c","h","t">>,
       <<"E","i","n","t","r","a","c","h","t"," ","F","r","a","n","k","f","u","r","t">>>>,
     <<<<"l","e","i","p","z","i","g">>,
       <<"R","B"," ","L","e","i","p","z","i","g">>>>,
     <<<<"r","b"," ","l","e","i","p","z","i","g">>,
       <<"R","B"," ","L","e","i","p","z","i","g">>>>,
     <<<<"v","f","b"," ","s","t","u","t","t","g","a","r","t">>,
       <<"V","f","B"," ","S","t","u","t","t","g","a","r","t">>>>,
     <<<<"s","t","u","t","t","g","a","r","t">>,
       <<"V","f","B"," ","S","t","u","t","t","g","a","r","t">>>>,
     <<<<"v","f","l"," ","w","o","l","f","s","b","u","r","g">>,
       <<"V","f","L"," ","W","o","l","f","s","b","u","r","g">>>>,
     <<<<"w","o","l","f","s","b","u","r","g">>,
       <<"V","f","L"," ","W","o","l","f","s","b","u","r","g">>>>,
     <<<<"v","f","l"," ","b","o","c","h","u","m">>,
       <<"V","f","L"," ","B","o","c","h","u","m">>>>,
     <<<<"b","o","c","h","u","m">>,
       <<"V","f","L"," ","B","o","c","h","u","m">>>>,
     <<<<"s","c"," ","f","r","e","i","b","u","r","g">>,
       <<"S","C"," ","F","r","e","i","b","u","r","g">>>>,
     <<<<"f","r","e","i","b","u","r","g">>,
       <<"S","C"," ","F","r","e","i","b","u","r","g">>>>,
     <<<<"f","s","v"," ","m","a","i","n","z"," ","0","5">>,
       <<"F","S","V"," ","M","a","i","n","z"," ","0","5">>>>,
     <<<<"m","a","i","n","z">>,
       <<"F","S","V"," ","M","a","i","n","z"," ","0","5">>>>,
     <<<<"t","s","g"," ","h","o","f","f","e","n","h","e","i","m">>,
       <<"T","S","G"," ","H","o","f","f","e","n","h","e","i","m">>>>,
     <<<<"h","o","f","f","e","n","h","e","i","m">>,
       <<"T","S","G"," ","H","o","f","f","e","n","h","e","i","m">>>>,
     <<<<"f","c"," ","a","u","g","s","b","u","r","g">>,
       <<"F","C"," ","A","u","g","s","b","u","r","g">>>>,
     <<<<"a","u","g","s","b","u","r","g">>,
       <<"F","C"," ","A","u","g","s","b","u","r","g">>>>,
     <<<<"w","e","r","d","e","r">>,
       <<"W","e","r","d","e","r"," ","B","r","e","m","e","n">>>>,
     <<<<"w","e","r","d","e","r"," ","b","r","e","m","e","n">>,
       <<"W","e","r","d","e","r"," ","B","r","e","m","e","n">>>>,
     <<<<"h","a","m","b","u","r","g","e","r"," ","s","v">>,
       <<"H","a","m","b","u","r","g","e","r"," ","S","V">>>>,
     <<<<"h","a","m","b","u","r","g">>,
       <<"H","a","m","b","u","r","g","e","r"," ","S","V">>>>,
     <<<<"h","s","v">>,
       <<"H","a","m","b","u","r","g","e","r"," ","S","V">>>>,
     <<<<"k","oe","l","n">>,
       <<"1","."," ","F","C"," ","K","oe","l","n">>>>,
     <<<<"k","o","l","n">>,
       <<"1","."," ","F","C"," ","K","oe","l","n">>>>,
     <<<<"c","o","l","o","g","n","e">>,
       <<"1","."," ","F","C"," ","K","oe","l","n">>>>,
     <<<<"1","."," ","f","c"," ","k","oe","l","n">>,
       <<"1","."," ","F","C"," ","K","oe","l","n">>>>,
     <<<<"h","e","i","d","e","n","h","e","i","m">>,
       <<"1","."," ","F","C"," ","H","e","i","d","e","n","h","e","i","m">>>>,
     <<<<"y","o","u","n","g"," ","b","o","y","s">>,
       <<"B","S","C"," ","Y","o","u","n","g"," ","B","o","y","s">>>>,
     <<<<"b","s","c"," ","y","o","u","n","g"," ","b","o","y","s">>,
       <<"B","S","C"," ","Y","o","u","n","g"," ","B","o","y","s">>>>,
     <<<<"m","i","l","a","n">>,
       <<"A","C"," ","M","i","l","a","n">>>>,
     <<<<"a","c"," ","m","i","l","a","n">>,
       <<"A","C"," ","M","i","l","a","n">>>>,
     <<<<"i","n","t","e","r">>,
       <<"I","n","t","e","r"," ","M","i","l","a","n">>>>,
     <<<<"i","n","t","e","r"," ","m","i","l","a","n">>,
       <<"I","n","t","e","r"," ","M","i","l","a","n">>>>,
     <<<<"i","n","t","e","r","n","a","z","i","o","n","a","l","e">>,
       <<"I","n","t","e","r"," ","M","i","l","a","n">>>>,
     <<<<"n","e","r","a","z","z","u","r","r","i">>,
       <<"I","n","t","e","r"," ","M","i","l","a","n">>>>,
     <<<<"j","u","v","e">>,
       <<"J","u","v","e","n","t","u","s">>>>,
     <<<<"l","a"," ","v","e","c","c","h","i","a"," ","s","i","g","n","o","r","a">>,
       <<"J","u","v","e","n","t","u","s">>>>,
     <<<<"r","o","m","a">>,
       <<"A","S"," ","R","o","m","a">>>>,
     <<<<"a","s"," ","r","o","m","a">>,
       <<"A","S"," ","R","o","m","a">>>>,
     <<<<"l","a","z","i","o">>,
       <<"S","S"," ","L","a","z","i","o">>>>,
     <<<<"s","s"," ","l","a","z","i","o">>,
       <<"S","S"," ","L","a","z","i","o">>>>,
     <<<<"s","s","c"," ","n","a","p","o","l","i">>,
       <<"S","S","C"," ","N","a","p","o","l","i">>>>,
     <<<<"n","a","p","o","l","i">>,
       <<"S","S","C"," ","N","a","p","o","l","i">>>>,
     <<<<"a","t","a","l","a","n","t","a">>,
       <<"A","t","a","l","a","n","t","a">>>>,
     <<<<"f","i","o","r","e","n","t","i","n","a">>,
       <<"A","C","F"," ","F","i","o","r","e","n","t","i","n","a">>>>,
     <<<<"a","c","f"," ","f","i","o","r","e","n","t","i","n","a">>,
       <<"A","C","F"," ","F","i","o","r","e","n","t","i","n","a">>>>,
     <<<<"t","o","r","i","n","o">>,
       <<"T","o","r","i","n","o">>>>,
     <<<<"h","e","l","l","a","s">>,
       <<"H","e","l","l","a","s"," ","V","e","r","o","n","a">>>>,
     <<<<"h","e","l","l","a","s"," ","v","e","r","o","n","a">>,
       <<"H","e","l","l","a","s"," ","V","e","r","o","n","a">>>>,
     <<<<"v","e","r","o","n","a">>,
       <<"H","e","l","l","a","s"," ","V","e","r","o","n","a">>>>,
     <<<<"l","e","c","c","e">>,
       <<"U","S"," ","L","e","c","c","e">>>>,
     <<<<"u","s"," ","l","e","c","c","e">>,
       <<"U","S"," ","L","e","c","c","e">>>>,
     <<<<"s","a","l","e","r","n","i","t","a","n","a">>,
       <<"U","S"," ","S","a","l","e","r","n","i","t","a","n","a">>>>,
     <<<<"p","s","g">>,
       <<"P","a","r","i","s"," ","S","a","i","n","t","-","G","e","r","m","a","i","n">>>>,
     <<<<"p","a","r","i","s">>,
       <<"P","a","r","i","s"," ","S","a","i","n","t","-","G","e","r","m","a","i","n">>>>,
     <<<<"p","a","r","i","s"," ","s","g">>,
       <<"P","a","r","i","s"," ","S","a","i","n","t","-","G","e","r","m","a","i","n">>>>,
     <<<<"l","y","o","n">>,
       <<"O","l","y","m","p","i","q","u","e"," ","L","y","o","n","n","a","i","s">>>>,
     <<<<"o","l">>,
       <<"O","l","y","m","p","i","q","u","e"," ","L","y","o","n","n","a","i","s">>>>,
     <<<<"m","a","r","s","e","i","l","l","e">>,
       <<"O","l","y","m","p","i","q","u","e"," ","d","e"," ","M","a","r","s","e","i","l","l","e">>>>,
     <<<<"o","m">>,
       <<"O","l","y","m","p","i","q","u","e"," ","d","e"," ","M","a","r","s","e","i","l","l","e">>>>,
     <<<<"m","o","n","a","c","o">>,
       <<"A","S"," ","M","o","n","a","c","o">>>>,
     <<<<"a","s"," ","m","o","n","a","c","o">>,
       <<"A","S"," ","M","o","n","a","c","o">>>>,
     <<<<"n","i","c","e">>,
       <<"O","G","C"," ","N","i","c","e">>>>,
     <<<<"o","g","c"," ","n","i","c","e">>,
       <<"O","G","C"," ","N","i","c","e">>>>,
     <<<<"l","i","l","l","e">>,
       <<"L","i","l","l","e"," ","O","S","C">>>>,
     <<<<"l","o","s","c">>,
       <<"L","i","l","l","e"," ","O","S","C">>>>,
     <<<<"l","o","s","c"," ","l","i","l","l","e">>,
       <<"L","i","l","l","e"," ","O","S","C">>>>,
     <<<<"l","e","n","s">>,
       <<"R","C"," ","L","e","n","s">>>>,
     <<<<"r","c"," ","l","e","n","s">>,
       <<"R","C"," ","L","e","n","s">>>>,
     <<<<"r","e","n","n","e","s">>,
       <<"S","t","a","d","e"," ","R","e","n","n","a","i","s">>>>,
     <<<<"n","a","n","t","e","s">>,
       <<"F","C"," ","N","a","n","t","e","s">>>>,
     <<<<"b","r","e","s","t">>,
       <<"S","t","a","d","e"," ","B","r","e","s","t","o","i","s">>>>,
     <<<<"r","e","i","m","s">>,
       <<"S","t","a","d","e"," ","d","e"," ","R","e","i","m","s">>>>,
     <<<<"b","e","n","f","i","c","a">>,
       <<"S","L"," ","B","e","n","f","i","c","a">>>>,
     <<<<"s","l"," ","b","e","n","f","i","c","a">>,
       <<"S","L"," ","B","e","n","f","i","c","a">>>>,
     <<<<"p","o","r","t","o">>,
       <<"F","C"," ","P","o","r","t","o">>>>,
     <<<<"f","c"," ","p","o","r","t","o">>,
       <<"F","C"," ","P","o","r","t","o">>>>,
     <<<<"s","p","o","r","t","i","n","g">>,
       <<"S","p","o","r","t","i","n","g"," ","C","P">>>>,
     <<<<"s","p","o","r","t","i","n","g"," ","c","p">>,
       <<"S","p","o","r","t","i","n","g"," ","C","P">>>>,
     <<<<"b","r","a","g","a">>,
       <<"S","C"," ","B","r","a","g","a">>>>,
     <<<<"s","c"," ","b","r","a","g","a">>,
       <<"S","C"," ","B","r","a","g","a">>>>,
     <<<<"a","j","a","x">>,
       <<"A","F","C"," ","A","j","a","x">>>>,
     <<<<"a","f","c"," ","a","j","a","x">>,
       <<"A","F","C"," ","A","j","a","x">>>>,
     <<<<"p","s","v">>,
       <<"P","S","V"," ","E","i","n","d","h","o","v","e","n">>>>,
     <<<<"p","s","v"," ","e","i","n","d","h","o","v","e","n">>,
       <<"P","S","V"," ","E","i","n","d","h","o","v","e","n">>>>,
     <<<<"e","i","n","d","h","o","v","e","n">>,
       <<"P","S","V"," ","E","i","n","d","h","o","v","e","n">>>>,
     <<<<"f","e","y","e","n","o","o","r","d">>,
       <<"F","e","y","e","n","o","o","r","d">>>>,
     <<<<"a","z">>,
       <<"A","Z"," ","A","l","k","m","a","a","r">>>>,
     <<<<"a","l","k","m","a","a","r">>,
       <<"A","Z"," ","A","l","k","m","a","a","r">>>>,
     <<<<"t","w","e","n","t","e">>,
       <<"F","C"," ","T","w","e","n","t","e">>>>,
     <<<<"f","c"," ","t","w","e","n","t","e">>,
       <<"F","C"," ","T","w","e","n","t","e">>>>,
     <<<<"cy_ts","cy_s","cy_k","cy_a">>,
       <<"CY_TS","CY_S","CY_K","CY_A"," ","CY_M","cy_o","cy_s","cy_k","cy_v","cy_a">>>>,
     <<<<"cy_s","cy_p","cy_a","cy_r","cy_t","cy_a","cy_k">>,
       <<"CY_S","cy_p","cy_a","cy_r","cy_t","cy_a","cy_k"," ","CY_M","cy_o","cy_s","cy_k","cy_v","cy_a">>>>,
     <<<<"cy_z","cy_e","cy_n","cy_i","cy_t">>,
       <<"CY_Z","cy_e","cy_n","cy_i","cy_t">>>>,
     <<<<"cy_l","cy_o","cy_k","cy_o">>,
       <<"CY_L","cy_o","cy_k","cy_o","cy_m","cy_o","cy_t","cy_i","cy_v"," ","CY_M","cy_o","cy_s","cy_k","cy_v","cy_a">>>>,
     <<<<"cy_l","cy_o","cy_k","cy_o","cy_m","cy_o","cy_t","cy_i","cy_v">>,
       <<"CY_L","cy_o","cy_k","cy_o","cy_m","cy_o","cy_t","cy_i","cy_v"," ","CY_M","cy_o","cy_s","cy_k","cy_v","cy_a">>>>,
     <<<<"cy_d","cy_i","cy_n","cy_a","cy_m","cy_o">>,
       <<"CY_D","cy_i","cy_n","cy_a","cy_m","cy_o"," ","CY_M","cy_o","cy_s","cy_k","cy_v","cy_a">>>>,
     <<<<"cy_k","cy_r","cy_a","cy_s","cy_n","cy_o","cy_d","cy_a","cy_r">>,
       <<"CY_K","cy_r","cy_a","cy_s","cy_n","cy_o","cy_d","cy_a","cy_r">>>>,
     <<<<"i","f"," ","e","l","f","s","b","o","r","g">>,
       <<"I","F"," ","E","l","f","s","b","o","r","g">>>>,
     <<<<"i","f","k"," ","g","oe","t","e","b","o","r","g">>,
       <<"I","F","K"," ","G","oe","t","e","b","o","r","g">>>>,
     <<<<"i","f"," ","g","oe","t","e","b","o","r","g">>,
       <<"I","F","K"," ","G","oe","t","e","b","o","r","g">>>>
    }

\* key in _ALIASES, and _ALIASES[key]
InAliases(key) == \E e \in ALIASES : e[1] = key
AliasOf(key)   == (CHOOSE e \in ALIASES : e[1] = key)[2]

\* normalize_team_name(raw)
NormalizeTeamName(raw) ==
    LET stripped      == Strip(raw)
        lower         == StrLower(stripped)
        stripped_name == StripLegalSuffix(stripped)
    IN  IF stripped = << >> THEN raw
        ELSE IF InAliases(lower) THEN AliasOf(lower)
        ELSE IF InAliases(StrLower(stripped_name))
             THEN AliasOf(StrLower(stripped_name))
        ELSE IF stripped_name # stripped THEN ToTitle(stripped_name)
        ELSE ToTitle(stripped)


\* ------------------------------------------------------------------------
\* injury_impact.py: the key players and the missing-player factors
\* ------------------------------------------------------------------------

\* Player names as sequences of characters ("i_acute" is the accented i).
Haaland    == <<"H", "a", "a", "l", "a", "n", "d">>
DeBruyne   == <<"D", "e", " ", "B", "r", "u", "y", "n", "e">>
Rodri      == <<"R", "o", "d", "r", "i">>
Salah      == <<"S", "a", "l", "a", "h">>
VanDijk    == <<"V", "a", "n", " ", "D", "i", "j", "k">>
Bellingham == <<"B", "e", "l", "l", "i", "n", "g", "h", "a", "m">>
Vinicius   == <<"V", "i", "n", "i_acute", "c", "i", "u", "s">>

\* KEY_PLAYERS: per team, the players in the order of the dict, each with
\* its impact dict (fractions in fixed point).
KEY_PLAYERS ==
    [team \in {"Manchester City", "Liverpool", "Real Madrid"} |->
        IF team = "Manchester City"
        THEN << [name |-> Haaland,  impact |-> [attack |-> 42000000]],
                [name |-> DeBruyne, impact |-> [attack |-> 30000000]],
                [name |-> Rodri,    impact |-> [defense |-> 18000000]] >>
        ELSE IF team = "Liverpool"
        THEN << [name |-> Salah,    impact |-> [attack |-> 30000000]],
                [name |-> VanDijk,  impact |-> [defense |-> 22000000]] >>
        ELSE << [name |-> Bellingham, impact |-> [attack |-> 24000000]],
                [name |-> Vinicius,   impact |-> [attack |-> 28000000]] >>]

\* a in b, for strings.
Contains(a, b) ==
    \E i \in 0..(Len(b) - Len(a)) : SubSeq(b, i + 1, i + Len(a)) = a

\* _match_players(known, injured): the impacts of the known players whose
\* lower-cased name contains, or is contained in, a lower-cased absent name.
MatchPlayers(known, injured) ==
    LET NonEmpty(p) == p # << >>
        injured_l   == [i \in 1..Len(SelectSeq(injured, NonEmpty)) |->
                           StrLower(SelectSeq(injured, NonEmpty)[i])]
        Hit(entry)  == LET nl == StrLower(entry.name)
                       IN  \E i \in 1..Len(injured_l) :
                               \/ Contains(nl, injured_l[i])
                               \/ Contains(injured_l[i], nl)
        matched     == SelectSeq(known, Hit)
    IN  [i \in 1..Len(matched) |-> matched[i].impact]

\* imp.get(key, 0.0)
ImpactOf(imp, key) == IF key \in DOMAIN imp THEN imp[key] ELSE 0

\* The sum over the impacts of imp.get(key, 0.0) * 1.2.
RECURSIVE ImpactPenalty(_, _)
ImpactPenalty(impacts, key) ==
    IF impacts = << >> THEN 0
    ELSE Mul(ImpactOf(Head(impacts), key), 120000000)
         + ImpactPenalty(Tail(impacts), key)

\* round(x, 3)
Round3(x) == RoundDiv(x, 100000) * 100000

MAX_ATTACK_PENALTY  == 35000000
MAX_DEFENSE_PENALTY == 25000000
ATTACK_FLOOR        == 65000000

\* injury_factors(team_name, injured_players, suspended_players)
InjuryFactors(team_name, injured_players, suspended_players) ==
    LET NonBlank(p) == Strip(p) # << >>
        injured     == SelectSeq(injured_players, NonBlank)
        suspended   == SelectSeq(suspended_players, NonBlank)
        all_absent  == injured \o suspended
        known       == IF team_name \in DOMAIN KEY_PLAYERS
                       THEN KEY_PLAYERS[team_name] ELSE << >>
        impacts     == MatchPlayers(known, all_absent)
        generic_attack  == (IF injured # << >> THEN 7000000 ELSE 0)
                           + (IF suspended # << >> THEN 5000000 ELSE 0)
        generic_defense == (IF injured # << >> THEN 5000000 ELSE 0)
                           + (IF suspended # << >> THEN 3000000 ELSE 0)
        attack_pen  == Min(generic_attack + ImpactPenalty(impacts, "attack"),
                           MAX_ATTACK_PENALTY)
        defense_pen == Min(generic_defense + ImpactPenalty(impacts, "defense"),
                           MAX_DEFENSE_PENALTY)
        attack_factor  == Max(ATTACK_FLOOR, One - attack_pen)
        defense_factor == One + defense_pen
    IN  [attack  |-> Round3(attack_factor),
         defense |-> Round3(defense_factor),
         matched |-> Len(impacts)]

\* ------------------------------------------------------------------------
\* fatigue.py: the fatigue factors
\* ------------------------------------------------------------------------

\* fatigue_to_lambda_factor(fatigue) = 1 - clamp(fatigue) * 0.08
FatigueToLambdaFactor(fatigue) == One - Mul(Clip(fatigue, 0, One), 8000000)

\* fatigue_to_concede_factor(fatigue) = 1 + clamp(fatigue) * 0.10
FatigueToConcedeFactor(fatigue) == One + Mul(Clip(fatigue, 0, One), 10000000)

\* ------------------------------------------------------------------------
\* form_weighted.py: the opponent-weighted form
\* ------------------------------------------------------------------------

BASE_ELO    == 1500
MAX_MATCHES == 8
WEIGHT_MIN  == 15000000
WEIGHT_MAX  == 250000000

\* The last n elements of a list (list[-n:]).
LastN(s, n) == SubSeq(s, Max(1, Len(s) - n + 1), Len(s))

\* The weight of one match: (opp_elo / base_elo) * ha, clipped to
\* [0.15, 2.5]; ha is 1.05 at home and 1.15 away.  opp_elo is
\* get_elo(opponent_name) or base_elo.
MatchWeight(m) ==
    LET opp_elo == IF m.opp_elo = 0 THEN BASE_ELO ELSE m.opp_elo
        ha      == IF m.is_home THEN 105000000 ELSE 115000000
        w       == Mul(RoundDiv(opp_elo * (One \div 100), BASE_ELO \div 100), ha)
    IN  Max(WEIGHT_MIN, Min(w, WEIGHT_MAX))

\* The points of one result: W 3, D 1, anything else 0.
MatchPoints(m) == IF m.result = "W" THEN 3 ELSE IF m.result = "D" THEN 1 ELSE 0

\* sum(p * w) and sum(3 * w) over the matches, both divided by 30 to
\* stay inside the fixed-point range; the program computes the quotient of
\* the two sums.
RECURSIVE GotPoints(_)
GotPoints(matches) ==
    IF matches = << >> THEN 0
    ELSE RoundDiv(MatchPoints(Head(matches)) * MatchWeight(Head(matches)), 30)
         + GotPoints(Tail(matches))
RECURSIVE MaxPoints(_)
MaxPoints(matches) ==
    IF matches = << >> THEN 0
    ELSE RoundDiv(3 * MatchWeight(Head(matches)), 30)
         + MaxPoints(Tail(matches))

\* calculate_weighted_form(recent_matches, get_elo, max_matches = 8), in
\* tenths of a point (the result is rounded to 1 decimal).
CalculateWeightedForm(recent_matches) ==
    IF recent_matches = << >> THEN 500
    ELSE LET matches == LastN(recent_matches, MAX_MATCHES)
             ratio   == Div(GotPoints(matches), MaxPoints(matches))
         IN  Max(0, Min(RoundDiv(ratio, One \div 1000), 1000))

\* ------------------------------------------------------------------------
\* match_analyzer.py: the adjustments of the team statistics
\* ------------------------------------------------------------------------

\* The names the import statements of match_analyzer.py bind.
ImportedNames ==
    {"logging", "Dict", "List", "Optional", "np", "TeamStats", "WeatherData",
     "NewsInsight", "calculate_poisson", "confidence_level",
     "build_dc_matrix", "calculate_fatigue", "fatigue_to_lambda_factor",
     "fatigue_to_concede_factor", "get_match_importance", "injury_factors",
     "MatchPredictor", "build_features"}

FORM_DEFAULT == 500

\* round(0.6 * w_form + 0.4 * float(form_score or 50.0), 1), in tenths.
BlendedForm(w_form, form_score) ==
    LET raw == IF form_score = 0 THEN FORM_DEFAULT ELSE form_score
    IN  RoundDiv(6 * w_form + 4 * raw, 10)

\* _apply_weighted_form(stats, team_id): recent is what
\* _get_recent_matches returned.  The call of a name the module does not
\* bind raises NameError, which the except clause swallows.
ApplyWeightedForm(stats, recent) ==
    IF recent = << >> THEN stats
    ELSE IF "calculate_weighted_form" \in ImportedNames
         THEN [stats EXCEPT !.form_score =
                   BlendedForm(CalculateWeightedForm(recent), stats.form_score)]
         ELSE stats

XG_BLEND   == 60000000
XG_DEFAULT == 135000000
XG_MIN_MATCHES == 5

\* xg.get(key, 1.35)
XgOf(xg, key) == IF key \in DOMAIN xg THEN xg[key] ELSE XG_DEFAULT

\* _apply_xg(stats, xg)
ApplyXg(stats, xg) ==
    IF (IF "matches" \in DOMAIN xg THEN xg.matches ELSE 0) >= XG_MIN_MATCHES
    THEN [stats EXCEPT
            !.avg_goals_scored =
                Mul(XG_BLEND, XgOf(xg, "xg_for"))
                + Mul(One - XG_BLEND, stats.avg_goals_scored),
            !.avg_goals_conceded =
                Mul(XG_BLEND, XgOf(xg, "xg_against"))
                + Mul(One - XG_BLEND, stats.avg_goals_conceded)]
    ELSE stats

\* _apply_news_factors(stats, news)
ApplyNewsFactors(stats, news) ==
    LET inj == IF news.has_injuries
               THEN [stats EXCEPT
                       !.avg_goals_scored   = Mul(stats.avg_goals_scored, 93000000),
                       !.avg_goals_conceded = Mul(stats.avg_goals_conceded, 105000000)]
               ELSE stats
    IN  IF news.has_suspensions
        THEN [inj EXCEPT
                !.avg_goals_scored   = Mul(inj.avg_goals_scored, 96000000),
                !.avg_goals_conceded = Mul(inj.avg_goals_conceded, 103000000)]
        ELSE inj

\* stats.avg_goals_scored *= f["attack"]; stats.avg_goals_conceded *= f["defense"]
ScaleGoals(stats, attack, defense) ==
    [stats EXCEPT !.avg_goals_scored   = Mul(stats.avg_goals_scored, attack),
                  !.avg_goals_conceded = Mul(stats.avg_goals_conceded, defense)]

\* The injury_factors step of analyze_match for one team.
ApplyInjuryFactors(stats, team_name, news) ==
    LET f == InjuryFactors(team_name, news.injury_players,
                           news.suspended_players)
    IN  ScaleGoals(stats, f.attack, f.defense)

\* The fatigue step of analyze_match for one team.
ApplyFatigueFactors(stats, fatigue) ==
    ScaleGoals(stats, FatigueToLambdaFactor(fatigue),
               FatigueToConcedeFactor(fatigue))

\* ------------------------------------------------------------------------
\* collectors/rate_limiter.py: the sliding window
\* ------------------------------------------------------------------------

\* Time.  A window holds the monotonic-clock readings of the admissions.
\* The model keeps each reading as its age, now minus the reading, in
\* seconds; the passing of d seconds adds d to every age.  An age beyond
\* the window is kept as EXPIRED: _cleanup treats all such readings alike.
WINDOW  == 60
EXPIRED == WINDOW + 1

Aged(age, d) == Min(age + d, EXPIRED)

\* A list of readings d seconds later.
AgedAll(readings, d) == [i \in 1..Len(readings) |-> Aged(readings[i], d)]

\* _cleanup(window, now) that drops the readings older than half a minute.
RECURSIVE CleanupHalfWindow(_)
CleanupHalfWindow(window) ==
    IF window # << >> /\ 2 * Head(window) > WINDOW
    THEN CleanupHalfWindow(Tail(window))
    ELSE window

\* _cleanup(window, now): pops from the left while window[0] < now - 60.0,
\* that is while the oldest reading is more than 60 seconds old.
RECURSIVE Cleanup(_)
Cleanup(window) ==
    IF window # << >> /\ Head(window) > WINDOW
    THEN Cleanup(Tail(window))
    ELSE window

\* self._windows[host] after the "if host not in self._windows" statement.
WindowOf(ws, host) == IF host \in DOMAIN ws THEN ws[host] ELSE << >>

\* The dict ws with ws[host] = window.
Put(ws, host, window) ==
    [h \in (DOMAIN ws) \cup {host} |-> IF h = host THEN window ELSE ws[h]]

\* One pass through the with-block of wait_until_allowed: whether the call
\* returns, and self._windows afterwards.
LockedPass(ws, host, limit_per_minute) ==
    LET window == Cleanup(WindowOf(ws, host))
    IN  IF Len(window) < limit_per_minute
        THEN [allowed |-> TRUE,  windows |-> Put(ws, host, Append(window, 0))]
        ELSE [allowed |-> FALSE, windows |-> Put(ws, host, window)]

\* ------------------------------------------------------------------------
\* collectors/base_collector.py: BaseCollector.get
\* ------------------------------------------------------------------------

RETRYABLE_CODES == {429, 500, 502, 503, 504}

\* What one self.session.get can end in: a response with a status code, or
\* an exception.
Statuses   == {200, 404} \cup RETRYABLE_CODES
Exceptions == {"Timeout", "ConnectionError"}
Outcomes   == {[status_code |-> c] : c \in Statuses}
              \cup {[raised |-> e] : e \in Exceptions}

Raised(outcome) == "raised" \in DOMAIN outcome

\* Every status but 200 is followed by another attempt.
RetriedUnless200(outcome) ==
    \/ Raised(outcome)
    \/ outcome.status_code # 200

\* The attempt is followed by time.sleep and the next attempt: a retryable
\* status, a Timeout or a ConnectionError.
Retried(outcome) ==
    \/ Raised(outcome)
    \/ outcome.status_code \in RETRYABLE_CODES

\* ------------------------------------------------------------------------
\* State
\* ------------------------------------------------------------------------

VARIABLES
    pc,             \* the call the evaluation makes next
    home,           \* home_stats as passed to calculate_poisson
    away,           \* away_stats as passed to calculate_poisson
    weather,        \* weather_data
    h2h,            \* the head-to-head record
    neutral_field,  \* the neutral-venue flag
    ml_trained,     \* self.ml.is_trained
    ml_classes,     \* classes_ of the trained model
    rates,          \* lambda_h, lambda_a calculate_poisson built its matrix from
    poisson,        \* the PoissonResult
    dc_args,        \* the arguments of the build_dc_matrix call
    dc_raw,         \* build_dc_matrix: the outer product
    dc_corr,        \* build_dc_matrix: the matrix after the tau loop
    dc_total,       \* build_dc_matrix: total
    dc_matrix,      \* the matrix build_dc_matrix returned
    ml_probs,       \* the classifier's result, or None
    final_probs,    \* the result of _ensemble
    confidence,     \* confidence, in tenths of a percent
    conf_lbl,       \* the confidence label
    name1,          \* teams_are_same: name1
    name2,          \* teams_are_same: name2
    norm1,          \* teams_are_same: normalize_team_name(name1)
    norm2,          \* teams_are_same: normalize_team_name(name2)
    same,           \* teams_are_same: the result
    home_team,      \* analyze_match: home_team
    away_team,      \* analyze_match: away_team
    built_home,     \* home_stats as _build_team_stats returned it
    built_away,     \* away_stats as _build_team_stats returned it
    recent_home,    \* _get_recent_matches(home_team_id)
    recent_away,    \* _get_recent_matches(away_team_id)
    home_news,      \* home_news
    away_news,      \* away_news
    xg_home,        \* xg_home
    xg_away,        \* xg_away
    fatigue_home,   \* fatigue_home
    fatigue_away,   \* fatigue_away
    applied,        \* the adjustment steps run so far, in order
    windows,        \* InMemoryRateLimiter._windows: host -> ages of the readings
    admitted,       \* per host, the ages of the admissions of the last minute
    sent,           \* per host, the ages of the requests of the last minute
    thread_pc,      \* per thread, the statement it is at
    thread_op,      \* per thread, the function it called
    thread_host,    \* per thread, the host of its call
    slept,          \* per thread, whether time has passed since its sleep began
    attempt,        \* per thread, attempt of the for loop of get
    outcomes,       \* per thread, what the attempts of its get call ended in
    response,       \* per thread, what its get call returned
    team_elo,       \* team_elo, as the match ids whose results update_elo has written
    elo_updates,    \* elo_updates: the match_id of every row
    run_pc,         \* per run of ELOUpdater, the statement it is at
    matches,        \* per run, the list _fetch_finished returned
    run_i,          \* per run, the position of m in matches
    processed,      \* per run, processed
    runs_started,   \* the runs started so far
    collector_cache,\* collector_cache: per key, the row with the age of its ts in hours
    stored,         \* per key, the data and the age of the latest _cache_set
    last_call,      \* the latest call of get_team_info or get_head_to_head
    db,             \* the database schema: tables, columns of team_elo, indexes, ids in _migrations
    mig_pc,         \* the statement run_migrations is at
    at_call,        \* the tables that existed when the latest run_migrations call began
    executed,       \* per migration, how often its schema change has been run
    deferred,       \* the migrations that have returned because their table was missing
    migration_calls \* the run_migrations calls made so far

vars == <<pc, home, away, weather, h2h, neutral_field, ml_trained, ml_classes, rates,
          poisson, dc_args, dc_raw, dc_corr, dc_total, dc_matrix, ml_probs,
          final_probs, confidence, conf_lbl, name1, name2, norm1, norm2, same,
          home_team, away_team, built_home, built_away, recent_home,
          recent_away, home_news, away_news, xg_home, xg_away, fatigue_home,
          fatigue_away, applied, windows, admitted, sent, thread_pc,
          thread_op, thread_host, slept, attempt, outcomes, response,
          team_elo, elo_updates, run_pc, matches, run_i, processed, runs_started,
          collector_cache, stored, last_call,
          db, mig_pc, at_call, executed, deferred, migration_calls>>

inputs == <<home, away, weather, h2h, neutral_field, ml_trained, ml_classes>>
dc     == <<dc_args, dc_raw, dc_corr, dc_total, dc_matrix>>
names  == <<name1, name2, norm1, norm2, same>>
prep_inputs == <<home_team, away_team, built_home, built_away, recent_home,
                 recent_away, home_news, away_news, xg_home, xg_away,
                 fatigue_home, fatigue_away>>
prep   == <<prep_inputs, applied>>
net    == <<windows, admitted, sent, thread_pc, thread_op, thread_host,
            slept, attempt, outcomes, response>>
elo == <<team_elo, elo_updates, run_pc, matches, run_i, processed, runs_started>>
cache == <<collector_cache, stored, last_call>>
schema == <<db, mig_pc, at_call, executed, deferred, migration_calls>>
store == <<elo, cache, schema>>
services == <<net, store>>
aside  == <<names, prep, services>>
engine == <<inputs, rates, poisson, dc, ml_probs, final_probs, confidence, conf_lbl>>

\* ------------------------------------------------------------------------
\* The inputs explored
\* ------------------------------------------------------------------------

\* TeamStats: the defaults of the dataclass, a strong and a weak side.
\* elo in points, form_score in tenths, goal averages in fixed point.
TeamDefault == [elo |-> 1500, form_score |-> 500,
                avg_goals_scored |-> 140000000, avg_goals_conceded |-> 140000000]
TeamStrong  == [elo |-> 1800, form_score |-> 1000,
                avg_goals_scored |-> 400000000, avg_goals_conceded |-> 10000000]
TeamWeak    == [elo |-> 1300, form_score |-> 0,
                avg_goals_scored |-> 10000000, avg_goals_conceded |-> 300000000]
Teams == {TeamDefault, TeamStrong, TeamWeak}

Weathers == {[impact_score |-> 0], [impact_score |-> 60]}

\* h2h: no record, a home-dominated one, an away-dominated one, a level one.
H2hRecords == {[matches |-> 0, home_win_pct |-> 50],
               [matches |-> 3, home_win_pct |-> 60],
               [matches |-> 5, home_win_pct |-> 30],
               [matches |-> 4, home_win_pct |-> 45],
               [matches |-> 2, home_win_pct |-> 100],
               [matches |-> 20, home_win_pct |-> 55],
               [matches |-> 20, home_win_pct |-> 35]}

\* Classifier triples with components in [0, 1]: a typical one, the 0.33
\* fallbacks of predict, and the corners.
MlTriples == {[home_win |-> 51234567, draw |-> 20000000, away_win |-> 28765433],
              [home_win |-> 33000000, draw |-> 33000000, away_win |-> 33000000],
              [home_win |-> 0, draw |-> 0, away_win |-> One],
              [home_win |-> 0, draw |-> 0, away_win |-> 0],
              [home_win |-> One, draw |-> One, away_win |-> One]}

\* classes_ of a trained model: all three outcomes, or those of a model
\* fitted on data without a draw.
AllClasses == {0, 1, 2}
ClassSets  == {AllClasses, {0, 2}}
NoClasses  == {}

\* Arguments of a direct build_dc_matrix call: max_goals is the default or
\* a small value up to SmallMaxGoals.
SmallMaxGoals == 1
DcRates    == {30000000, 150000000, 600000000}
DcRhos     == {-50000000, -13000000, 0, 50000000}
DcMaxGoals == (0..SmallMaxGoals) \cup {MAX_GOALS}

\* rho as analyze_match passes it.
DC_RHO == -13000000

NoMatrix == << >>

\* No teams_are_same call in the evaluation.
NoNames ==
    /\ name1 = << >>
    /\ name2 = << >>
    /\ norm1 = << >>
    /\ norm2 = << >>
    /\ same = FALSE

NumThreads     == 2
LimitPerMinute == 2
Retries        == 2

Threads == 1..NumThreads
Hosts   == {"api.football-data.org", "newsapi.org"}

\* The threads that call BaseCollector.get, and the host of their urls.
Collectors     == {1}
CollectorHosts == {"api.football-data.org"}

\* The seconds that pass between two steps of the threads.
TickSteps == {30, 40}

NoResult == [pending |-> TRUE]

\* No thread has called the limiter or a collector.
NoNet ==
    /\ windows = << >>
    /\ admitted = [h \in Hosts |-> << >>]
    /\ sent = [h \in Hosts |-> << >>]
    /\ thread_pc = [t \in Threads |-> "idle"]
    /\ thread_op = [t \in Threads |-> ""]
    /\ thread_host = [t \in Threads |-> ""]
    /\ slept = [t \in Threads |-> FALSE]
    /\ attempt = [t \in Threads |-> 0]
    /\ outcomes = [t \in Threads |-> << >>]
    /\ response = [t \in Threads |-> NoResult]

NumRuns == 2
MaxRuns == 3
Runs == 1..NumRuns

\* No run of ELOUpdater has been started; both tables are empty.
NoElo ==
    /\ team_elo = << >>
    /\ elo_updates = {}
    /\ run_pc = [r \in Runs |-> "idle"]
    /\ matches = [r \in Runs |-> << >>]
    /\ run_i = [r \in Runs |-> 0]
    /\ processed = [r \in Runs |-> 0]
    /\ runs_started = 0

\* Python values held in the cache: None, a dict as the sequence of its
\* items, a list as the sequence of its elements.
PyNone == [type |-> "NoneType", value |-> << >>]
PyDict(items) == [type |-> "dict", value |-> items]
PyList(elements) == [type |-> "list", value |-> elements]

\* bool(x) of such a value.
Truthy(x) == x.type # "NoneType" /\ Len(x.value) > 0

CacheKeys == {"team_info_arsenal", "h2h_arsenal_chelsea"}

NoRow  == [present |-> FALSE, data_json |-> << >>, age |-> 0]
NoCall == [key |-> "", max_age_hours |-> 0, was_stored |-> FALSE, fresh |-> FALSE,
           data |-> PyNone, cached |-> PyNone, fetched |-> FALSE]

\* collector_cache is empty and nothing has been asked for.
NoCache ==
    /\ collector_cache = [k \in CacheKeys |-> NoRow]
    /\ stored = [k \in CacheKeys |-> NoRow]
    /\ last_call = NoCall

MaxCalls == 3

Mids == {"m001_team_elo_add_league", "m002_team_elo_add_team_id",
         "m003_collector_cache_index", "m004_elo_updates_indexes"}

\* A new database file.
EmptyDb == [tables |-> {}, columns |-> {}, indexes |-> {}, log |-> {}]

\* run_migrations has not been called.
NoMigrationCall ==
    /\ mig_pc = "idle"
    /\ at_call = {}
    /\ executed = [mid \in Mids |-> 0]
    /\ deferred = {}
    /\ migration_calls = 0

\* A new database on which run_migrations has not been called.
NoSchema ==
    /\ db = EmptyDb
    /\ NoMigrationCall

\* No table of the database is in use.
NoStore ==
    /\ NoElo
    /\ NoCache
    /\ NoSchema

\* No service is in use.
NoServices ==
    /\ NoNet
    /\ NoStore

\* The NewsInsight without a report, the default xG dict of _get_xg, and
\* the empty list of recent matches.
NewsNone == [has_injuries |-> FALSE, has_suspensions |-> FALSE,
             injury_players |-> << >>, suspended_players |-> << >>]
XgNone  == [xg_for |-> XG_DEFAULT, xg_against |-> XG_DEFAULT, matches |-> 0]
RecentNone == << >>

\* No adjustment stage in the evaluation.
NoPrep ==
    /\ home_team = ""
    /\ away_team = ""
    /\ built_home = None
    /\ built_away = None
    /\ recent_home = RecentNone
    /\ recent_away = RecentNone
    /\ home_news = NewsNone
    /\ away_news = NewsNone
    /\ xg_home = XgNone
    /\ xg_away = XgNone
    /\ fatigue_home = 0
    /\ fatigue_away = 0
    /\ applied = << >>

\* ------------------------------------------------------------------------
\* analyze_match, from calculate_poisson on
\* ------------------------------------------------------------------------

Init ==
    /\ pc = "calculate_poisson"
    /\ home \in Teams
    /\ away \in Teams
    /\ weather \in Weathers
    /\ h2h \in H2hRecords
    /\ neutral_field \in BOOLEAN
    /\ ml_trained \in BOOLEAN
    /\ ml_classes \in (IF ml_trained THEN ClassSets ELSE {NoClasses})
    /\ rates = [h |-> 0, a |-> 0]
    /\ poisson = DefaultPoissonResult
    /\ dc_args = None
    /\ dc_raw = NoMatrix
    /\ dc_corr = NoMatrix
    /\ dc_total = 0
    /\ dc_matrix = NoMatrix
    /\ ml_probs = None
    /\ final_probs = None
    /\ confidence = 0
    /\ conf_lbl = ""
    /\ NoNames
    /\ NoPrep
    /\ NoServices

\* poisson = calculate_poisson(home_stats, away_stats, weather_data, h2h, neutral_field)
DoCalculatePoisson ==
    /\ pc = "calculate_poisson"
    /\ rates' = PoissonRates(home, away, weather, h2h, neutral_field)
    /\ poisson' = CalculatePoisson(home, away, weather, h2h, neutral_field)
    /\ pc' = "build_dc_matrix"
    /\ UNCHANGED <<aside, inputs, dc, ml_probs, final_probs, confidence, conf_lbl>>

\* The effect of one build_dc_matrix call on the state.
DcCall(args) ==
    LET r == BuildDcMatrix(args.lambda_h, args.lambda_a, args.max_goals, args.rho)
    IN  /\ dc_args' = args
        /\ dc_raw' = r.raw
        /\ dc_corr' = r.corr
        /\ dc_total' = r.total
        /\ dc_matrix' = r.matrix

\* dc_matrix = build_dc_matrix(poisson.lambda_h, poisson.lambda_a, rho=-0.13)
DoBuildDcMatrix ==
    /\ pc = "build_dc_matrix"
    /\ DcCall([lambda_h |-> poisson.lambda_h, lambda_a |-> poisson.lambda_a,
               max_goals |-> MAX_GOALS, rho |-> DC_RHO])
    /\ pc' = "_apply_dc_correction"
    /\ UNCHANGED <<aside, inputs, rates, poisson, ml_probs, final_probs, confidence, conf_lbl>>

\* poisson = self._apply_dc_correction(poisson, dc_matrix)
DoApplyDcCorrection ==
    /\ pc = "_apply_dc_correction"
    /\ poisson' = ApplyDcCorrection(poisson, dc_matrix)
    /\ pc' = "predict"
    /\ UNCHANGED <<aside, inputs, rates, dc, ml_probs, final_probs, confidence, conf_lbl>>

\* ml_probs = None; if self.ml.is_trained: ml_probs = self.ml.predict(feats).
\* predict returns its dict, or None when the model raises.
DoPredict ==
    /\ pc = "predict"
    /\ \/ /\ ~ml_trained
          /\ ml_probs' = None
       \/ /\ ml_trained
          /\ ml_probs' = None
       \/ /\ ml_trained
          /\ \E probs \in MlTriples :
                ml_probs' = PredictResult(ml_classes, probs)
    /\ pc' = "_ensemble"
    /\ UNCHANGED <<aside, inputs, rates, poisson, dc, final_probs, confidence, conf_lbl>>

\* final_probs = self._ensemble(poisson, ml_probs)
DoEnsemble ==
    /\ pc = "_ensemble"
    /\ final_probs' = Ensemble(poisson, ml_probs)
    /\ pc' = "confidence_level"
    /\ UNCHANGED <<aside, inputs, rates, poisson, dc, ml_probs, confidence, conf_lbl>>

\* confidence, conf_lbl = confidence_level(poisson)
DoConfidenceLevel ==
    /\ pc = "confidence_level"
    /\ confidence' = ConfidenceLevel(poisson)[1]
    /\ conf_lbl' = ConfidenceLevel(poisson)[2]
    /\ pc' = "return"
    /\ UNCHANGED <<aside, inputs, rates, poisson, dc, ml_probs, final_probs>>

Next ==
    \/ DoCalculatePoisson
    \/ DoBuildDcMatrix
    \/ DoApplyDcCorrection
    \/ DoPredict
    \/ DoEnsemble
    \/ DoConfidenceLevel

Spec == Init /\ [][Next]_vars


\* ------------------------------------------------------------------------
\* build_dc_matrix called directly, its result passed on to
\* _apply_dc_correction, _ensemble and confidence_level
\* ------------------------------------------------------------------------

InitDC ==
    /\ pc = "call_build_dc_matrix"
    /\ dc_args \in [lambda_h : DcRates, lambda_a : DcRates,
                    max_goals : DcMaxGoals, rho : DcRhos]
    /\ home = TeamDefault
    /\ away = TeamDefault
    /\ weather = [impact_score |-> 0]
    /\ h2h = [matches |-> 0, home_win_pct |-> 50]
    /\ neutral_field = FALSE
    /\ ml_trained \in BOOLEAN
    /\ ml_classes \in (IF ml_trained THEN ClassSets ELSE {NoClasses})
    /\ rates = [h |-> 0, a |-> 0]
    /\ poisson = DefaultPoissonResult
    /\ dc_raw = NoMatrix
    /\ dc_corr = NoMatrix
    /\ dc_total = 0
    /\ dc_matrix = NoMatrix
    /\ ml_probs = None
    /\ final_probs = None
    /\ confidence = 0
    /\ conf_lbl = ""
    /\ NoNames
    /\ NoPrep
    /\ NoServices

\* build_dc_matrix(lambda_h, lambda_a, max_goals, rho)
CallBuildDcMatrix ==
    /\ pc = "call_build_dc_matrix"
    /\ DcCall(dc_args)
    /\ pc' = "_apply_dc_correction"
    /\ UNCHANGED <<aside, inputs, rates, poisson, ml_probs, final_probs, confidence, conf_lbl>>

NextDC ==
    \/ CallBuildDcMatrix
    \/ DoApplyDcCorrection
    \/ DoPredict
    \/ DoEnsemble
    \/ DoConfidenceLevel

SpecDC == InitDC /\ [][NextDC]_vars

\* ------------------------------------------------------------------------
\* confidence_level called on results around its two thresholds
\* ------------------------------------------------------------------------

\* Best-outcome probabilities 0.4790 .. 0.4804 and 0.5990 .. 0.6004 in
\* steps of 0.0001, without 0.4795 and 0.5995: their percentage ends in a
\* 5 in the second decimal, where round(pct, 1) goes by the binary
\* expansion of the double.
BestProbs ==
    {p * 10000 : p \in ((4790..4804) \cup (5990..6004)) \ {4795, 5995}}

\* Results whose best outcome is the home win, and their mirror images.
ConfResults ==
    LET others == {20000000, 25000000}
    IN  {[DefaultPoissonResult EXCEPT !.home_win = p, !.draw = q,
                                      !.away_win = One - p - q]
            : p \in BestProbs, q \in others}
        \cup
        {[DefaultPoissonResult EXCEPT !.away_win = p, !.draw = q,
                                      !.home_win = One - p - q]
            : p \in BestProbs, q \in others}

InitConf ==
    /\ pc = "confidence_level"
    /\ poisson \in ConfResults
    /\ final_probs = Ensemble(poisson, None)
    /\ home = TeamDefault
    /\ away = TeamDefault
    /\ weather = [impact_score |-> 0]
    /\ h2h = [matches |-> 0, home_win_pct |-> 50]
    /\ neutral_field = FALSE
    /\ ml_trained = FALSE
    /\ ml_classes = NoClasses
    /\ rates = [h |-> 0, a |-> 0]
    /\ dc_args = None
    /\ dc_raw = NoMatrix
    /\ dc_corr = NoMatrix
    /\ dc_total = 0
    /\ dc_matrix = NoMatrix
    /\ ml_probs = None
    /\ confidence = 0
    /\ conf_lbl = ""
    /\ NoNames
    /\ NoPrep
    /\ NoServices

NextConf == DoConfidenceLevel

SpecConf == InitConf /\ [][NextConf]_vars


\* ------------------------------------------------------------------------
\* _ensemble called on matrix triples and classifier results of every shape
\* ------------------------------------------------------------------------

\* Matrix-derived triples, as 4-decimal values.
EnsTriples ==
    {<<4000, 3000, 3000>>, <<5489, 2452, 2060>>, <<3456, 4414, 2130>>,
     <<162, 704, 9134>>, <<3334, 3333, 3333>>, <<0, 10000, 0>>,
     <<8860, 909, 231>>, <<2419, 3090, 4491>>}

EnsResults ==
    {[DefaultPoissonResult EXCEPT !.home_win = t[1] * 10000,
                                  !.draw = t[2] * 10000,
                                  !.away_win = t[3] * 10000] : t \in EnsTriples}

\* The classifier triple of the blending example.
MlExample == [home_win |-> 50000000, draw |-> 20000000, away_win |-> 30000000]

\* The ml_probs an _ensemble call can receive: None, a dict of predict,
\* or a dict in which an outcome is missing.
EnsMlProbs ==
    {None}
    \cup {PredictResult(AllClasses, t) : t \in MlTriples \cup {MlExample}}
    \cup {[home_win |-> 50000000, away_win |-> 30000000, source |-> "ml"],
          [draw |-> 20000000, source |-> "ml"]}

InitEns ==
    /\ pc = "_ensemble"
    /\ poisson \in EnsResults
    /\ ml_probs \in EnsMlProbs
    /\ ml_trained = (ml_probs # None)
    /\ ml_classes = (IF ml_probs # None THEN AllClasses ELSE NoClasses)
    /\ home = TeamDefault
    /\ away = TeamDefault
    /\ weather = [impact_score |-> 0]
    /\ h2h = [matches |-> 0, home_win_pct |-> 50]
    /\ neutral_field = FALSE
    /\ rates = [h |-> 0, a |-> 0]
    /\ dc_args = None
    /\ dc_raw = NoMatrix
    /\ dc_corr = NoMatrix
    /\ dc_total = 0
    /\ dc_matrix = NoMatrix
    /\ final_probs = None
    /\ confidence = 0
    /\ conf_lbl = ""
    /\ NoNames
    /\ NoPrep
    /\ NoServices

NextEns ==
    \/ DoEnsemble
    \/ DoConfidenceLevel

SpecEns == InitEns /\ [][NextEns]_vars


\* ------------------------------------------------------------------------
\* teams_are_same called on pairs of names
\* ------------------------------------------------------------------------

\* Names of clubs, all different.
Arsenal    == <<"A", "r", "s", "e", "n", "a", "l">>
Chelsea    == <<"C", "h", "e", "l", "s", "e", "a">>
RealMadrid == <<"R", "e", "a", "l", " ", "M", "a", "d", "r", "i", "d">>
Juventus   == <<"J", "u", "v", "e", "n", "t", "u", "s">>
ACMilan    == <<"A", "C", " ", "M", "i", "l", "a", "n">>
InterMilan == <<"I", "n", "t", "e", "r", " ", "M", "i", "l", "a", "n">>
ManCity    == <<"m", "a", "n", " ", "c", "i", "t", "y">>
ManUtd     == <<"m", "a", "n", " ", "u", "t", "d">>

BaseNames == {Arsenal, Chelsea, RealMadrid, Juventus}
Clubs     == BaseNames \cup {ACMilan, InterMilan, ManCity, ManUtd}

\* A name in another letter case and with a trailing legal suffix.
Variants(b) ==
    {StrUpper(b), StrLower(b),
     b \o <<" ", "F", "C">>,
     b \o <<" ", "F", ".", "C", ".">>,
     b \o <<",", " ", "S", ".", "p", ".", "A", ".">>}

\* Pairs that name one club: an alias key with its canonical name, a name
\* with one of its variants.
VariantPairs == UNION {{<<v, b>> : v \in Variants(b)} : b \in BaseNames}
SamePairs    == ALIASES \cup VariantPairs

\* Pairs that name two clubs.
DifferentPairs == {c \in Clubs \X Clubs : c[1] # c[2]}

InitNorm ==
    /\ pc = "teams_are_same"
    /\ \E pair \in SamePairs \cup DifferentPairs :
          name1 = pair[1] /\ name2 = pair[2]
    /\ norm1 = << >>
    /\ norm2 = << >>
    /\ same = FALSE
    /\ home = TeamDefault
    /\ away = TeamDefault
    /\ weather = [impact_score |-> 0]
    /\ h2h = [matches |-> 0, home_win_pct |-> 50]
    /\ neutral_field = FALSE
    /\ ml_trained = FALSE
    /\ ml_classes = NoClasses
    /\ rates = [h |-> 0, a |-> 0]
    /\ poisson = DefaultPoissonResult
    /\ dc_args = None
    /\ dc_raw = NoMatrix
    /\ dc_corr = NoMatrix
    /\ dc_total = 0
    /\ dc_matrix = NoMatrix
    /\ ml_probs = None
    /\ final_probs = None
    /\ confidence = 0
    /\ conf_lbl = ""
    /\ NoPrep
    /\ NoServices

\* teams_are_same(name1, name2)
DoTeamsAreSame ==
    /\ pc = "teams_are_same"
    /\ norm1' = NormalizeTeamName(name1)
    /\ norm2' = NormalizeTeamName(name2)
    /\ same' = (norm1' = norm2')
    /\ pc' = "return"
    /\ UNCHANGED <<name1, name2, engine, prep, services>>

NextNorm == DoTeamsAreSame

SpecNorm == InitNorm /\ [][NextNorm]_vars


\* ------------------------------------------------------------------------
\* analyze_match, from the team statistics to calculate_poisson
\* ------------------------------------------------------------------------

\* NewsInsight values: nothing reported; a key striker injured; two key
\* attackers injured (one named in full) and a key defender suspended; the
\* injury flag without a name; an unknown player suspended.
NewsCases ==
    {NewsNone,
     [NewsNone EXCEPT !.has_injuries = TRUE, !.injury_players = <<Haaland>>],
     [NewsNone EXCEPT !.has_injuries = TRUE, !.has_suspensions = TRUE,
                      !.injury_players =
                          <<<<"E", "r", "l", "i", "n", "g", " ">> \o Haaland,
                            DeBruyne>>,
                      !.suspended_players = <<Rodri>>],
     [NewsNone EXCEPT !.has_injuries = TRUE],
     [NewsNone EXCEPT !.has_suspensions = TRUE,
                      !.suspended_players = <<<<"S", "m", "i", "t", "h">>>>]}

\* The xG dict: the default of _get_xg, and a sample of 12 matches.
XgCases == {XgNone,
            [xg_for |-> 180000000, xg_against |-> 95000000, matches |-> 12]}

\* What _get_recent_matches returned and the fatigue _get_fatigue made of
\* it: no finished match (fatigue 0.0), or two of them with a fatigue of
\* 0.5 or of 1.0.
RecentTwo  == << [result |-> "W", is_home |-> TRUE,  opp_elo |-> 1600],
                 [result |-> "L", is_home |-> FALSE, opp_elo |-> 1400] >>
RecentCases == {[recent |-> RecentNone, fatigue |-> 0],
                [recent |-> RecentTwo,  fatigue |-> One \div 2],
                [recent |-> RecentTwo,  fatigue |-> One]}

\* The home side: every combination; the away side: Liverpool with or
\* without its key players missing, with or without an xG sample.
HomeCases ==
    [team : {"Manchester City", "Union Berlin"}, stats : Teams,
     news : NewsCases, xg : XgCases, form : RecentCases]
AwayCases ==
    [team : {"Liverpool"}, stats : {TeamDefault},
     news : {NewsNone,
             [NewsNone EXCEPT !.has_injuries = TRUE, !.has_suspensions = TRUE,
                              !.injury_players = <<Salah>>,
                              !.suspended_players = <<VanDijk>>]},
     xg : XgCases, form : {[recent |-> RecentNone, fatigue |-> 0]}]

InitPrep ==
    /\ pc = "_apply_weighted_form"
    /\ \E h \in HomeCases, a \in AwayCases :
          /\ home_team = h.team
          /\ away_team = a.team
          /\ built_home = h.stats
          /\ built_away = a.stats
          /\ home = h.stats
          /\ away = a.stats
          /\ recent_home = h.form.recent
          /\ recent_away = a.form.recent
          /\ home_news = h.news
          /\ away_news = a.news
          /\ xg_home = h.xg
          /\ xg_away = a.xg
          /\ fatigue_home = h.form.fatigue
          /\ fatigue_away = a.form.fatigue
    /\ applied = << >>
    /\ weather = [impact_score |-> 0]
    /\ h2h = [matches |-> 0, home_win_pct |-> 50]
    /\ neutral_field = FALSE
    /\ ml_trained = FALSE
    /\ ml_classes = NoClasses
    /\ rates = [h |-> 0, a |-> 0]
    /\ poisson = DefaultPoissonResult
    /\ dc_args = None
    /\ dc_raw = NoMatrix
    /\ dc_corr = NoMatrix
    /\ dc_total = 0
    /\ dc_matrix = NoMatrix
    /\ ml_probs = None
    /\ final_probs = None
    /\ confidence = 0
    /\ conf_lbl = ""
    /\ NoNames
    /\ NoServices

\* The order with the fatigue factors ahead of the missing-player steps.
StepAfterFatigueFirst(step) ==
    IF step = "_apply_weighted_form" THEN "_apply_xg"
    ELSE IF step = "_apply_xg" THEN "fatigue_factors"
    ELSE IF step = "fatigue_factors" THEN "_apply_news_factors"
    ELSE IF step = "_apply_news_factors" THEN "injury_factors"
    ELSE "calculate_poisson"

\* The statement of analyze_match that follows a step.
StepAfter(step) ==
    IF step = "_apply_weighted_form" THEN "_apply_xg"
    ELSE IF step = "_apply_xg" THEN "_apply_news_factors"
    ELSE IF step = "_apply_news_factors" THEN "injury_factors"
    ELSE IF step = "injury_factors" THEN "fatigue_factors"
    ELSE "calculate_poisson"

\* What a step of the adjustment stage leaves alone.
prep_frame == <<names, services, prep_inputs, weather, h2h, neutral_field, ml_trained,
                ml_classes, rates, poisson, dc, ml_probs, final_probs,
                confidence, conf_lbl>>

\* The step has run on the home side, then on the away side.
Logged(step) == applied \o << <<step, "home">>, <<step, "away">> >>

\* home_stats = self._apply_weighted_form(home_stats, home_team_id), and
\* the same for away_stats
DoApplyWeightedForm ==
    /\ pc = "_apply_weighted_form"
    /\ home' = ApplyWeightedForm(home, recent_home)
    /\ away' = ApplyWeightedForm(away, recent_away)
    /\ applied' = Logged("_apply_weighted_form")
    /\ pc' = StepAfter("_apply_weighted_form")
    /\ UNCHANGED prep_frame

\* home_stats = self._apply_xg(home_stats, xg_home), and the same for
\* away_stats
DoApplyXg ==
    /\ pc = "_apply_xg"
    /\ home' = ApplyXg(home, xg_home)
    /\ away' = ApplyXg(away, xg_away)
    /\ applied' = Logged("_apply_xg")
    /\ pc' = StepAfter("_apply_xg")
    /\ UNCHANGED prep_frame

\* home_stats = self._apply_news_factors(home_stats, home_news), and the
\* same for away_stats
DoApplyNewsFactors ==
    /\ pc = "_apply_news_factors"
    /\ home' = ApplyNewsFactors(home, home_news)
    /\ away' = ApplyNewsFactors(away, away_news)
    /\ applied' = Logged("_apply_news_factors")
    /\ pc' = StepAfter("_apply_news_factors")
    /\ UNCHANGED prep_frame

\* ih = injury_factors(...); ia = injury_factors(...); the goal averages of
\* both sides are multiplied by them
DoInjuryFactors ==
    /\ pc = "injury_factors"
    /\ home' = ApplyInjuryFactors(home, home_team, home_news)
    /\ away' = ApplyInjuryFactors(away, away_team, away_news)
    /\ applied' = Logged("injury_factors")
    /\ pc' = StepAfter("injury_factors")
    /\ UNCHANGED prep_frame

\* The goal averages of both sides are multiplied by the fatigue factors
DoFatigueFactors ==
    /\ pc = "fatigue_factors"
    /\ home' = ApplyFatigueFactors(home, fatigue_home)
    /\ away' = ApplyFatigueFactors(away, fatigue_away)
    /\ applied' = Logged("fatigue_factors")
    /\ pc' = StepAfter("fatigue_factors")
    /\ UNCHANGED prep_frame

NextPrep ==
    \/ DoApplyWeightedForm
    \/ DoApplyXg
    \/ DoApplyNewsFactors
    \/ DoInjuryFactors
    \/ DoFatigueFactors
    \/ DoCalculatePoisson

SpecPrep == InitPrep /\ [][NextPrep]_vars

\* ------------------------------------------------------------------------
\* Threads calling wait_until_allowed and BaseCollector.get
\* ------------------------------------------------------------------------

\* No match is being analysed.
NoAnalysis ==
    /\ pc = "idle"
    /\ home = TeamDefault
    /\ away = TeamDefault
    /\ weather = [impact_score |-> 0]
    /\ h2h = [matches |-> 0, home_win_pct |-> 50]
    /\ neutral_field = FALSE
    /\ ml_trained = FALSE
    /\ ml_classes = NoClasses
    /\ rates = [h |-> 0, a |-> 0]
    /\ poisson = DefaultPoissonResult
    /\ dc_args = None
    /\ dc_raw = NoMatrix
    /\ dc_corr = NoMatrix
    /\ dc_total = 0
    /\ dc_matrix = NoMatrix
    /\ ml_probs = None
    /\ final_probs = None
    /\ confidence = 0
    /\ conf_lbl = ""
    /\ NoNames
    /\ NoPrep

analysis == <<pc, engine, names, prep>>
beside_net == <<analysis, store>>

InitNet ==
    /\ NoAnalysis
    /\ NoServices

\* The readings of the last 60 seconds, d seconds later.
Recent(readings, d) ==
    LET InWindow(age) == age <= WINDOW
    IN  SelectSeq(AgedAll(readings, d), InWindow)

\* d seconds pass: every reading ages, every sleep of at most 2.55 seconds
\* (time.sleep(min(sleep_for, 2.0)), time.sleep(backoff ** attempt + ...))
\* is over.
Tick ==
    /\ \E d \in TickSteps :
          /\ windows' = [h \in DOMAIN windows |-> AgedAll(windows[h], d)]
          /\ admitted' = [h \in Hosts |-> Recent(admitted[h], d)]
          /\ sent' = [h \in Hosts |-> Recent(sent[h], d)]
    /\ slept' = [t \in Threads |-> thread_pc[t] \in {"sleep", "backoff"}]
    /\ UNCHANGED <<beside_net, thread_pc, thread_op, thread_host, attempt,
                   outcomes, response>>

\* A thread calls wait_until_allowed(host, limit_per_minute).
CallWaitUntilAllowed(t) ==
    /\ thread_pc[t] = "idle"
    /\ \E h \in Hosts : thread_host' = [thread_host EXCEPT ![t] = h]
    /\ thread_op' = [thread_op EXCEPT ![t] = "wait_until_allowed"]
    /\ thread_pc' = [thread_pc EXCEPT ![t] = "wait_until_allowed"]
    /\ UNCHANGED <<beside_net, windows, admitted, sent, slept, attempt,
                   outcomes, response>>

\* A thread calls BaseCollector.get(url): host is the url's, the first
\* statement is the wait_until_allowed call.
CallGet(t) ==
    /\ thread_pc[t] = "idle"
    /\ \E h \in CollectorHosts : thread_host' = [thread_host EXCEPT ![t] = h]
    /\ thread_op' = [thread_op EXCEPT ![t] = "get"]
    /\ thread_pc' = [thread_pc EXCEPT ![t] = "wait_until_allowed"]
    /\ UNCHANGED <<beside_net, windows, admitted, sent, slept, attempt,
                   outcomes, response>>

\* One pass of the while loop of wait_until_allowed through its with-block
\* (the lock makes the block atomic): the call returns, or the thread goes
\* on to time.sleep.
DoWaitUntilAllowed(t) ==
    /\ thread_pc[t] = "wait_until_allowed"
    /\ LET host == thread_host[t]
           pass == LockedPass(windows, host, LimitPerMinute)
       IN  /\ windows' = pass.windows
           /\ IF pass.allowed
              THEN /\ admitted' = [admitted EXCEPT ![host] = Append(@, 0)]
                   /\ thread_pc' = [thread_pc EXCEPT ![t] =
                          IF thread_op[t] = "get" THEN "session.get" ELSE "idle"]
                   /\ UNCHANGED slept
              ELSE /\ thread_pc' = [thread_pc EXCEPT ![t] = "sleep"]
                   /\ slept' = [slept EXCEPT ![t] = FALSE]
                   /\ UNCHANGED admitted
    /\ UNCHANGED <<beside_net, sent, thread_op, thread_host, attempt, outcomes,
                   response>>

\* time.sleep(min(sleep_for, 2.0)) of wait_until_allowed returns; the loop
\* goes round.
WakeUp(t) ==
    /\ thread_pc[t] = "sleep"
    /\ slept[t]
    /\ thread_pc' = [thread_pc EXCEPT ![t] = "wait_until_allowed"]
    /\ slept' = [slept EXCEPT ![t] = FALSE]
    /\ UNCHANGED <<beside_net, windows, admitted, sent, thread_op, thread_host,
                   attempt, outcomes, response>>

\* One pass of the for loop of get: self.session.get sends the request;
\* status 200 or a non-retryable status returns the response, a retryable
\* status, a Timeout or a ConnectionError goes on to time.sleep.
DoSessionGet(t) ==
    /\ thread_pc[t] = "session.get"
    /\ attempt[t] < Retries
    /\ sent' = [sent EXCEPT ![thread_host[t]] = Append(@, 0)]
    /\ \E outcome \in Outcomes :
          /\ outcomes' = [outcomes EXCEPT ![t] = Append(@, outcome)]
          /\ IF Retried(outcome)
             THEN /\ thread_pc' = [thread_pc EXCEPT ![t] = "backoff"]
                  /\ slept' = [slept EXCEPT ![t] = FALSE]
                  /\ UNCHANGED response
             ELSE /\ response' = [response EXCEPT ![t] = outcome]
                  /\ thread_pc' = [thread_pc EXCEPT ![t] = "return"]
                  /\ UNCHANGED slept
    /\ UNCHANGED <<beside_net, windows, admitted, thread_op, thread_host,
                   attempt>>

\* The time.sleep after a failed attempt returns; the for loop takes the
\* next value of attempt.
EndBackoff(t) ==
    /\ thread_pc[t] = "backoff"
    /\ slept[t]
    /\ attempt' = [attempt EXCEPT ![t] = @ + 1]
    /\ thread_pc' = [thread_pc EXCEPT ![t] = "session.get"]
    /\ slept' = [slept EXCEPT ![t] = FALSE]
    /\ UNCHANGED <<beside_net, windows, admitted, sent, thread_op, thread_host,
                   outcomes, response>>

\* range(self.retries) is exhausted: return None.
GiveUp(t) ==
    /\ thread_pc[t] = "session.get"
    /\ attempt[t] >= Retries
    /\ response' = [response EXCEPT ![t] = None]
    /\ thread_pc' = [thread_pc EXCEPT ![t] = "return"]
    /\ UNCHANGED <<beside_net, windows, admitted, sent, thread_op, thread_host,
                   slept, attempt, outcomes>>

\* The caller of get has taken the return value; the locals of the call
\* are gone.
Finish(t) ==
    /\ thread_pc[t] = "return"
    /\ thread_pc' = [thread_pc EXCEPT ![t] = "idle"]
    /\ attempt' = [attempt EXCEPT ![t] = 0]
    /\ outcomes' = [outcomes EXCEPT ![t] = << >>]
    /\ response' = [response EXCEPT ![t] = NoResult]
    /\ UNCHANGED <<beside_net, windows, admitted, sent, thread_op, thread_host,
                   slept>>

\* The steps a thread takes inside a call.
Running(t) ==
    \/ DoWaitUntilAllowed(t)
    \/ WakeUp(t)
    \/ DoSessionGet(t)
    \/ EndBackoff(t)
    \/ GiveUp(t)
    \/ Finish(t)

\* Time advances and every thread inside a call gets to run.
Scheduling ==
    /\ WF_vars(Tick)
    /\ \A t \in Threads : WF_vars(Running(t))

\* Threads calling wait_until_allowed.
NextLimiter ==
    \/ Tick
    \/ \E t \in Threads : CallWaitUntilAllowed(t)
    \/ \E t \in Threads : DoWaitUntilAllowed(t)
    \/ \E t \in Threads : WakeUp(t)

SpecLimiter == InitNet /\ [][NextLimiter]_vars /\ Scheduling

\* Threads calling BaseCollector.get.
NextGet ==
    \/ Tick
    \/ \E t \in Collectors : CallGet(t)
    \/ \E t \in Collectors : DoWaitUntilAllowed(t)
    \/ \E t \in Collectors : WakeUp(t)
    \/ \E t \in Collectors : DoSessionGet(t)
    \/ \E t \in Collectors : EndBackoff(t)
    \/ \E t \in Collectors : GiveUp(t)
    \/ \E t \in Collectors : Finish(t)

SpecGet == InitNet /\ [][NextGet]_vars /\ Scheduling

\* ------------------------------------------------------------------------
\* ELOUpdater.run, by the scheduler's job and from the command line
\* ------------------------------------------------------------------------

\* home_goals of a match without a full-time score.
NoGoals == -1

\* The matches the API reports as finished.
Finished == << [id |-> 101, home_goals |-> 2, away_goals |-> 1],
               [id |-> 102, home_goals |-> NoGoals, away_goals |-> NoGoals],
               [id |-> 103, home_goals |-> 0, away_goals |-> 0] >>

MatchIds == {Finished[k].id : k \in 1..Len(Finished)}

\* How many times the result of match_id has been written to team_elo.
Applications(match_id) ==
    Cardinality({k \in 1..Len(team_elo) : team_elo[k] = match_id})

\* _already_updated.
AlreadyUpdated(match_id) == match_id \in elo_updates

beside_elo == <<analysis, net, cache, schema>>

InitElo ==
    /\ NoAnalysis
    /\ NoServices

\* run up to the loop: _fetch_finished returns the finished matches, or
\* the empty list when the request failed.
DoFetchFinished(r) ==
    /\ run_pc[r] = "idle"
    /\ runs_started < MaxRuns
    /\ \E fetched \in {<< >>, Finished} :
           matches' = [matches EXCEPT ![r] = fetched]
    /\ run_i' = [run_i EXCEPT ![r] = 1]
    /\ processed' = [processed EXCEPT ![r] = 0]
    /\ run_pc' = [run_pc EXCEPT ![r] = "for"]
    /\ runs_started' = runs_started + 1
    /\ UNCHANGED <<beside_elo, team_elo, elo_updates>>

\* The head of the loop body: a match without a score or with a row in
\* elo_updates is skipped.
DoAlreadyUpdated(r) ==
    /\ run_pc[r] = "for"
    /\ run_i[r] <= Len(matches[r])
    /\ LET m == matches[r][run_i[r]]
       IN  IF \/ m.home_goals = NoGoals
              \/ m.away_goals = NoGoals
              \/ AlreadyUpdated(m.id)
           THEN /\ run_i' = [run_i EXCEPT ![r] = @ + 1]
                /\ run_pc' = run_pc
           ELSE /\ run_pc' = [run_pc EXCEPT ![r] = "update_elo"]
                /\ run_i' = run_i
    /\ UNCHANGED <<beside_elo, team_elo, elo_updates, matches, processed,
                   runs_started>>

\* update_elo: the new ratings of both teams are written and committed.
DoUpdateElo(r) ==
    /\ run_pc[r] = "update_elo"
    /\ team_elo' = Append(team_elo, matches[r][run_i[r]].id)
    /\ run_pc' = [run_pc EXCEPT ![r] = "_log_update"]
    /\ UNCHANGED <<beside_elo, elo_updates, matches, run_i, processed,
                   runs_started>>

\* _log_update: the row is inserted; match_id is UNIQUE, so with a row
\* already there the INSERT raises IntegrityError, which ends run.
DoLogUpdate(r) ==
    /\ run_pc[r] = "_log_update"
    /\ LET m == matches[r][run_i[r]]
       IN  IF m.id \in elo_updates
           THEN /\ run_pc' = [run_pc EXCEPT ![r] = "idle"]
                /\ UNCHANGED <<elo_updates, run_i, processed>>
           ELSE /\ elo_updates' = elo_updates \cup {m.id}
                /\ processed' = [processed EXCEPT ![r] = @ + 1]
                /\ run_i' = [run_i EXCEPT ![r] = @ + 1]
                /\ run_pc' = [run_pc EXCEPT ![r] = "for"]
    /\ UNCHANGED <<beside_elo, team_elo, matches, runs_started>>

\* The process is stopped between update_elo and _log_update.
Interrupt(r) ==
    /\ run_pc[r] = "_log_update"
    /\ run_pc' = [run_pc EXCEPT ![r] = "idle"]
    /\ UNCHANGED <<beside_elo, team_elo, elo_updates, matches, run_i,
                   processed, runs_started>>

\* The loop is over: run returns processed.
DoReturnProcessed(r) ==
    /\ run_pc[r] = "for"
    /\ run_i[r] > Len(matches[r])
    /\ run_pc' = [run_pc EXCEPT ![r] = "idle"]
    /\ UNCHANGED <<beside_elo, team_elo, elo_updates, matches, run_i,
                   processed, runs_started>>

NextElo ==
    \E r \in Runs :
        \/ DoFetchFinished(r)
        \/ DoAlreadyUpdated(r)
        \/ DoUpdateElo(r)
        \/ DoLogUpdate(r)
        \/ Interrupt(r)
        \/ DoReturnProcessed(r)

SpecElo == InitElo /\ [][NextElo]_vars

\* ------------------------------------------------------------------------
\* The collector cache and the scheduler's job_clean_cache
\* ------------------------------------------------------------------------

TEAM_INFO_MAX_AGE == 72
H2H_MAX_AGE       == 24
CLEAN_AFTER       == 24

\* An age beyond every max_age_hours; the hours that pass between two calls.
STALE     == TEAM_INFO_MAX_AGE + 1
HourSteps == {24, 25}

\* json.dumps and json.loads of a cached value.
Dumps(data) == <<"json", data.type, data.value>>
Loads(data_json) == [type |-> data_json[2], value |-> data_json[3]]

\* The row _cache_set writes: INSERT OR REPLACE with ts = time.time().
SetRow(data) == [present |-> TRUE, data_json |-> Dumps(data), age |-> 0]

\* _cache_get: the row of key with ts >= time.time() - max_age_hours * 3600.
CacheGet(rows, key, max_age_hours) ==
    IF rows[key].present /\ rows[key].age <= max_age_hours
    THEN Loads(rows[key].data_json)
    ELSE PyNone

\* The DELETE of job_clean_cache: rows with ts < time.time() - 24 * 3600.
CleanCache(rows) ==
    [k \in CacheKeys |->
        IF rows[k].present /\ rows[k].age > CLEAN_AFTER THEN NoRow ELSE rows[k]]

\* The rows d hours later.
LaterRows(rows, d) ==
    [k \in CacheKeys |->
        IF rows[k].present
        THEN [rows[k] EXCEPT !.age = Min(@ + d, STALE)]
        ELSE rows[k]]

\* What the two requests can bring: the dict get_team_info builds, and the
\* events get_head_to_head keeps.
TeamInfo == PyDict(<< <<"name", "Arsenal">>, <<"stadium", "Emirates Stadium">> >>)
Events   == {PyList(<< >>), PyList(<< [date |-> "2024-01-01", home_score |-> 2, away_score |-> 1] >>)}

\* What a call found: whether the latest _cache_set of key is at most
\* max_age_hours old, what _cache_get returned and whether a request was made.
Call(key, max_age_hours, cached, fetched) ==
    [key |-> key, max_age_hours |-> max_age_hours,
     was_stored |-> stored[key].present,
     fresh |-> stored[key].present /\ stored[key].age <= max_age_hours,
     data |-> IF stored[key].present THEN Loads(stored[key].data_json) ELSE PyNone,
     cached |-> cached, fetched |-> fetched]

beside_cache == <<analysis, net, elo, schema>>

InitCache ==
    /\ NoAnalysis
    /\ NoServices

CacheTick ==
    /\ \E d \in HourSteps :
           /\ collector_cache' = LaterRows(collector_cache, d)
           /\ stored' = LaterRows(stored, d)
    /\ UNCHANGED <<beside_cache, last_call>>

\* get_team_info: the cached dict if there is one, otherwise the request;
\* the dict is stored only when the request brought a team.
GetTeamInfo ==
    LET cache_key == "team_info_arsenal"
        cached == CacheGet(collector_cache, cache_key, TEAM_INFO_MAX_AGE)
    IN  /\ IF Truthy(cached)
           THEN /\ last_call' = Call(cache_key, TEAM_INFO_MAX_AGE, cached, FALSE)
                /\ UNCHANGED <<collector_cache, stored>>
           ELSE /\ last_call' = Call(cache_key, TEAM_INFO_MAX_AGE, cached, TRUE)
                /\ \E teams \in {"None", "[]", "[t]"} :
                       IF teams = "[t]"
                       THEN /\ collector_cache' = [collector_cache EXCEPT ![cache_key] = SetRow(TeamInfo)]
                            /\ stored' = [stored EXCEPT ![cache_key] = SetRow(TeamInfo)]
                       ELSE UNCHANGED <<collector_cache, stored>>
        /\ UNCHANGED beside_cache

\* get_head_to_head: the cached list if it is truthy, otherwise the
\* request; events[:10] is stored whatever the request brought.
GetHeadToHead ==
    LET cache_key == "h2h_arsenal_chelsea"
        cached == CacheGet(collector_cache, cache_key, H2H_MAX_AGE)
    IN  /\ IF Truthy(cached)
           THEN /\ last_call' = Call(cache_key, H2H_MAX_AGE, cached, FALSE)
                /\ UNCHANGED <<collector_cache, stored>>
           ELSE /\ last_call' = Call(cache_key, H2H_MAX_AGE, cached, TRUE)
                /\ \E events \in Events :
                       /\ collector_cache' = [collector_cache EXCEPT ![cache_key] = SetRow(events)]
                       /\ stored' = [stored EXCEPT ![cache_key] = SetRow(events)]
        /\ UNCHANGED beside_cache

JobCleanCache ==
    /\ collector_cache' = CleanCache(collector_cache)
    /\ UNCHANGED <<beside_cache, stored, last_call>>

NextCache ==
    \/ CacheTick
    \/ GetTeamInfo
    \/ GetHeadToHead
    \/ JobCleanCache

SpecCache == InitCache /\ [][NextCache]_vars

\* ------------------------------------------------------------------------
\* run_migrations and the creation of the tables it waits for
\* ------------------------------------------------------------------------

\* team_elo as CREATE TABLE makes it, and as databases older than the
\* league column have it.
TeamEloColumns   == {"name", "league", "elo"}
LegacyEloColumns == {"name", "elo"}

\* CREATE TABLE IF NOT EXISTS team_elo.
WithTeamElo(d) ==
    IF "team_elo" \in d.tables
    THEN d
    ELSE [d EXCEPT !.tables = @ \cup {"team_elo"}, !.columns = TeamEloColumns]

\* _applied and _mark_applied.
Applied(d, mid) == mid \in d.log
MarkApplied(d, mid) == [d EXCEPT !.log = @ \cup {mid}]

\* _m001_team_elo_add_league.
M001(d) ==
    LET mid == "m001_team_elo_add_league"
        created == WithTeamElo(d)
    IN  IF Applied(d, mid)
        THEN d
        ELSE MarkApplied([created EXCEPT !.columns = @ \cup {"league"}], mid)

\* _m002_team_elo_add_team_id.
M002(d) ==
    LET mid == "m002_team_elo_add_team_id"
    IN  IF Applied(d, mid)
        THEN d
        ELSE IF "team_id" \notin d.columns
             THEN MarkApplied([d EXCEPT !.columns = @ \cup {"team_id"},
                                        !.indexes = @ \cup {"te_team_id"}], mid)
             ELSE MarkApplied(d, mid)

\* _m003_collector_cache_index, recording itself also when it is deferred.
M003MarkedWhenDeferred(d) ==
    LET mid == "m003_collector_cache_index"
    IN  IF Applied(d, mid)
        THEN d
        ELSE IF "collector_cache" \notin d.tables
             THEN MarkApplied(d, mid)
             ELSE MarkApplied([d EXCEPT !.indexes = @ \cup {"cc_ts"}], mid)

\* _m003_collector_cache_index.
M003(d) ==
    LET mid == "m003_collector_cache_index"
    IN  IF Applied(d, mid)
        THEN d
        ELSE IF "collector_cache" \notin d.tables
             THEN d
             ELSE MarkApplied([d EXCEPT !.indexes = @ \cup {"cc_ts"}], mid)

\* _m004_elo_updates_indexes.
M004(d) ==
    LET mid == "m004_elo_updates_indexes"
    IN  IF Applied(d, mid)
        THEN d
        ELSE IF "elo_updates" \notin d.tables
             THEN d
             ELSE MarkApplied([d EXCEPT !.indexes = @ \cup {"eu_match_id", "eu_teams"}], mid)

\* The table a migration returns without, if it has one.
WaitsFor(mid) ==
    CASE mid = "m003_collector_cache_index" -> {"collector_cache"}
      [] mid = "m004_elo_updates_indexes"   -> {"elo_updates"}
      [] OTHER                              -> {}

beside_schema == <<analysis, net, elo, cache>>

\* The database files run_migrations is first called on: a new one, one
\* whose team_elo a collector has made, one from before the league column.
InitSchema ==
    /\ NoAnalysis
    /\ NoNet
    /\ NoElo
    /\ NoCache
    /\ NoMigrationCall
    /\ \E cols \in {{}, TeamEloColumns, LegacyEloColumns} :
           db = IF cols = {}
                THEN EmptyDb
                ELSE [EmptyDb EXCEPT !.tables = {"team_elo"}, !.columns = cols]

\* run_migrations up to its first migration: _ensure_migration_log.
CallRunMigrations ==
    /\ mig_pc = "idle"
    /\ migration_calls < MaxCalls
    /\ db' = [db EXCEPT !.tables = @ \cup {"_migrations"}]
    /\ at_call' = db.tables
    /\ migration_calls' = migration_calls + 1
    /\ mig_pc' = "_m001_team_elo_add_league"
    /\ UNCHANGED <<beside_schema, executed, deferred>>

\* One migration function: with after the database as the function leaves it.
Migrate(at, mid, after, then) ==
    /\ mig_pc = at
    /\ db' = after
    /\ executed' = IF ~Applied(db, mid) /\ WaitsFor(mid) \subseteq db.tables
                   THEN [executed EXCEPT ![mid] = @ + 1]
                   ELSE executed
    /\ deferred' = IF ~Applied(db, mid) /\ ~(WaitsFor(mid) \subseteq db.tables)
                   THEN deferred \cup {mid}
                   ELSE deferred
    /\ mig_pc' = then
    /\ UNCHANGED <<beside_schema, at_call, migration_calls>>

DoM001 ==
    Migrate("_m001_team_elo_add_league", "m001_team_elo_add_league", M001(db),
            "_m002_team_elo_add_team_id")

DoM002 ==
    Migrate("_m002_team_elo_add_team_id", "m002_team_elo_add_team_id", M002(db),
            "_m003_collector_cache_index")

DoM003 ==
    Migrate("_m003_collector_cache_index", "m003_collector_cache_index", M003(db),
            "_m004_elo_updates_indexes")

DoM004 ==
    Migrate("_m004_elo_updates_indexes", "m004_elo_updates_indexes", M004(db),
            "commit")

\* conn.commit and the end of the with block.
DoCommit ==
    /\ mig_pc = "commit"
    /\ mig_pc' = "idle"
    /\ UNCHANGED <<beside_schema, db, at_call, executed, deferred, migration_calls>>

\* BaseCollector._ensure_cache_table: the table and its index cc_ts.
EnsureCacheTable ==
    /\ "collector_cache" \notin db.tables
    /\ db' = [db EXCEPT !.tables = @ \cup {"collector_cache"},
                        !.indexes = @ \cup {"cc_ts"}]
    /\ UNCHANGED <<beside_schema, mig_pc, at_call, executed, deferred, migration_calls>>

\* ELOUpdater._ensure_tables: elo_updates, and team_elo if it is missing.
EnsureTables ==
    /\ "elo_updates" \notin db.tables
    /\ db' = [WithTeamElo(db) EXCEPT !.tables = @ \cup {"elo_updates"}]
    /\ UNCHANGED <<beside_schema, mig_pc, at_call, executed, deferred, migration_calls>>

NextSchema ==
    \/ CallRunMigrations
    \/ DoM001
    \/ DoM002
    \/ DoM003
    \/ DoM004
    \/ DoCommit
    \/ EnsureCacheTable
    \/ EnsureTables

SpecSchema == InitSchema /\ [][NextSchema]_vars

\* ------------------------------------------------------------------------
\* Properties
\* ------------------------------------------------------------------------

\* 1e-6, the tolerance of the probability sums.
Tolerance == One \div 1000000

Near(x, y) == Abs(x - y) <= Tolerance

\* build_dc_matrix has returned.
DcBuilt == pc \in {"_apply_dc_correction", "predict", "_ensemble",
                   "confidence_level", "return"}

\* _apply_dc_correction has returned.
DcApplied == pc \in {"predict", "_ensemble", "confidence_level", "return"}

\* The arguments are inside the domain of the contract.
RateInDomain(lam) == LAMBDA_MIN <= lam /\ lam <= LAMBDA_MAX
RhoInDomain(rho)  == -(One \div 2) <= rho /\ rho <= 0

Cells(m) == Indices(m)

TripleSum(t) == t.home_win + t.draw + t.away_win

InUnit(x) == 0 <= x /\ x <= One

\* C1: for lambda_h, lambda_a in [0.3, 6.0], rho in [-0.5, 0] and
\* max_goals = 10 the entries of the matrix build_dc_matrix returns sum to
\* 1.0 within 1e-6.
C1_MatrixSumsToOne ==
    (/\ DcBuilt
     /\ dc_args.max_goals = MAX_GOALS
     /\ RateInDomain(dc_args.lambda_h)
     /\ RateInDomain(dc_args.lambda_a)
     /\ RhoInDomain(dc_args.rho))
    => Near(MatrixSum(dc_matrix), One)

\* A call at the corner of the domain whose corrected matrix had to be
\* rescaled: its total was away from 1 by more than the tolerance.
C1_Witness ==
    /\ DcBuilt
    /\ dc_args = [lambda_h |-> LAMBDA_MAX, lambda_a |-> LAMBDA_MAX,
                  max_goals |-> MAX_GOALS, rho |-> -(One \div 2)]
    /\ ~Near(dc_total, One)
    /\ Near(MatrixSum(dc_matrix), One)

\* C2: home_win + draw + away_win is 1.0 within 1e-6 in the triple that
\* calculate_poisson writes, in the one _apply_dc_correction writes and in
\* the one _ensemble returns, with and without a classifier result.
C2_TriplesSumToOne ==
    /\ pc = "build_dc_matrix" => Near(TripleSum(poisson), One)
    /\ DcApplied => Near(TripleSum(poisson), One)
    /\ final_probs # None => Near(TripleSum(final_probs), One)

\* C3: the rates calculate_poisson builds its matrix from, and the rates
\* it reports, lie in [0.3, 6.0].
C3_RatesClipped ==
    pc # "calculate_poisson" =>
        /\ RateInDomain(rates.h)
        /\ RateInDomain(rates.a)
        /\ RateInDomain(poisson.lambda_h)
        /\ RateInDomain(poisson.lambda_a)

\* The label the claim gives a best-outcome probability p.
LabelOfProb(p) ==
    IF p >= 60000000 THEN "high"
    ELSE IF p >= 48000000 THEN "medium"
    ELSE "low"

\* C4: confidence_level labels the best outcome probability p high for
\* p >= 0.60, medium for 0.48 <= p < 0.60 and low for p < 0.48.
C4_LabelThresholds ==
    pc = "return" => conf_lbl = LabelOfProb(BestProb(poisson))

\* C5: when a classifier result was blended in, the confidence analyze_match
\* returns is 100 x the largest of the blended probabilities, rounded to 1
\* decimal, and the label is the one of that percentage.
C5_ConfidenceOfFinal ==
    (pc = "return" /\ ml_probs # None) =>
        /\ confidence = ConfidencePct(final_probs)
        /\ conf_lbl = ConfidenceLabel(ConfidencePct(final_probs))

FactorOf(x, y, args) ==
    CASE x = 0 /\ y = 0 -> One - Mul(args.lambda_h, Mul(args.lambda_a, args.rho))
      [] x = 0 /\ y = 1 -> One + Mul(args.lambda_h, args.rho)
      [] x = 1 /\ y = 0 -> One + Mul(args.lambda_a, args.rho)
      [] x = 1 /\ y = 1 -> One - args.rho
      [] OTHER -> One

LowCells == {<<0, 0>>, <<0, 1>>, <<1, 0>>, <<1, 1>>}

\* C7 as claimed: before the renormalisation (max_goals >= 1) the four low
\* cells are the raw cells times their factors and every other cell is the
\* raw cell.
C7_FourCellsMultiplied ==
    (DcBuilt /\ dc_args.max_goals >= 1) =>
        \A c \in Cells(dc_corr) :
            dc_corr[c[1]][c[2]] =
                IF c \in LowCells
                THEN Mul(dc_raw[c[1]][c[2]], FactorOf(c[1], c[2], dc_args))
                ELSE dc_raw[c[1]][c[2]]

\* C7 as amended: the four low cells are the raw cells times their
\* factors, floored at 0; every other cell is the raw cell; and with a
\* positive total every cell is returned divided by that one total.
C7_FourCellsMultipliedAndFloored ==
    (DcBuilt /\ dc_args.max_goals >= 1) =>
        /\ \A c \in Cells(dc_corr) :
              dc_corr[c[1]][c[2]] =
                  IF c \in LowCells
                  THEN Max(0, Mul(dc_raw[c[1]][c[2]], FactorOf(c[1], c[2], dc_args)))
                  ELSE dc_raw[c[1]][c[2]]
        /\ dc_total > 0 =>
              \A c \in Cells(dc_matrix) \ LowCells :
                  dc_matrix[c[1]][c[2]] = Div(dc_raw[c[1]][c[2]], dc_total)

\* A call on a matrix with cells outside the low block, in which a low
\* cell was raised and another lowered, none of them to 0.
C7_Witness ==
    /\ DcBuilt
    /\ dc_args.max_goals = MAX_GOALS
    /\ dc_args.lambda_h # dc_args.lambda_a
    /\ dc_corr[0][0] > dc_raw[0][0]
    /\ dc_corr[0][1] < dc_raw[0][1]
    /\ dc_corr[0][1] > 0
    /\ dc_corr[1][0] > 0
    /\ dc_corr[2][2] = dc_raw[2][2]
    /\ dc_raw[2][2] > 0

\* C8: every entry of the matrix build_dc_matrix returns is >= 0.
C8_CellsNonNegative ==
    DcBuilt => \A c \in Cells(dc_matrix) : dc_matrix[c[1]][c[2]] >= 0

\* A call in which a tau factor was negative on a cell with mass, and the
\* cell came back as 0.
C8_Witness ==
    /\ DcBuilt
    /\ dc_args.max_goals >= 1
    /\ FactorOf(0, 1, dc_args) < 0
    /\ dc_raw[0][1] > 0
    /\ dc_corr[0][1] = 0
    /\ dc_matrix[0][1] = 0

\* C9: with a total of 0 build_dc_matrix returns the corrected matrix as it
\* is; with a positive total it returns every cell divided by the total.
C9_ZeroTotalSkipped ==
    DcBuilt =>
        /\ dc_total >= 0
        /\ dc_total = 0 => dc_matrix = dc_corr
        /\ dc_total > 0 =>
              \A c \in Cells(dc_matrix) :
                  dc_matrix[c[1]][c[2]] = Div(dc_corr[c[1]][c[2]], dc_total)

\* A call whose only cell was floored to 0: the total is 0 and the matrix
\* is returned as it is.
C9_Witness ==
    /\ DcBuilt
    /\ dc_raw[0][0] > 0
    /\ dc_total = 0
    /\ dc_matrix = dc_corr

\* C10: both_score, over_1_5, over_2_5, over_3_5 and the outcome triple
\* derived from a matrix of build_dc_matrix, and the final triple, lie in
\* [0, 1].
C10_ProbabilitiesInUnit ==
    /\ DcApplied =>
          /\ InUnit(poisson.both_score)
          /\ InUnit(poisson.over_1_5)
          /\ InUnit(poisson.over_2_5)
          /\ InUnit(poisson.over_3_5)
          /\ InUnit(poisson.home_win)
          /\ InUnit(poisson.draw)
          /\ InUnit(poisson.away_win)
    /\ final_probs # None =>
          /\ InUnit(final_probs.home_win)
          /\ InUnit(final_probs.draw)
          /\ InUnit(final_probs.away_win)

\* An evaluation that blended a classifier triple with a component of 1.0
\* into a triple derived from a matrix whose low cell had been floored.
C10_Witness ==
    /\ pc = "return"
    /\ dc_args.max_goals = MAX_GOALS
    /\ FactorOf(1, 0, dc_args) < 0
    /\ poisson.away_win > poisson.home_win
    /\ poisson.over_2_5 > 0
    /\ ml_probs # None
    /\ ml_probs.away_win = One
    /\ final_probs.away_win > poisson.away_win
    /\ poisson.both_score > 0
    /\ ml_probs # None
    /\ ml_probs.away_win = One
    /\ final_probs.source = "poisson+dc+ml"

\* _ensemble has returned.
Ensembled == pc \in {"confidence_level", "return"}

\* The matrix-derived triple with the matrix-only tag.
MatrixOnly(result) ==
    [home_win |-> result.home_win, draw |-> result.draw,
     away_win |-> result.away_win, source |-> "poisson+dc"]

\* 7 * p + 3 * m, ten times the blend of p and m, in units of 1e-5.
TenBlend(p, m) == (7 * p + 3 * m) \div 10000

\* x, a 4-decimal value, is the quotient part / (h + d + a) of the ten-fold
\* blends to the 4 decimals it is reported with: x * sum and part differ by
\* no more than 0.7 units of the 4th decimal.
IsShare(x, part, h, d, a) ==
    LET sum == h + d + a
    IN  Abs((x \div 10000) * sum - 10000 * part) <= (7 * sum) \div 10

\* C11: with a classifier triple, _ensemble returns for each outcome
\* (0.70 * matrix + 0.30 * classifier) / (sum of the three blends), to the
\* 4 decimals of the result, tagged "poisson+dc+ml"; the matrix triple
\* (0.40, 0.30, 0.30) with the classifier triple (0.50, 0.20, 0.30) gives
\* (0.43, 0.27, 0.30).
C11_BlendNormalised ==
    (Ensembled /\ ml_probs # None) =>
        LET h == TenBlend(poisson.home_win, Get(ml_probs, "home_win"))
            d == TenBlend(poisson.draw, Get(ml_probs, "draw"))
            a == TenBlend(poisson.away_win, Get(ml_probs, "away_win"))
        IN  /\ final_probs.source = "poisson+dc+ml"
            /\ h + d + a > 0 =>
                  /\ IsShare(final_probs.home_win, h, h, d, a)
                  /\ IsShare(final_probs.draw, d, h, d, a)
                  /\ IsShare(final_probs.away_win, a, h, d, a)
            /\ (/\ poisson.home_win = 40000000
                /\ poisson.draw = 30000000
                /\ ml_probs = PredictResult(AllClasses, MlExample))
               => /\ final_probs.home_win = 43000000
                  /\ final_probs.draw = 27000000
                  /\ final_probs.away_win = 30000000

\* The example of the blend has been evaluated.
C11_Witness ==
    /\ Ensembled
    /\ poisson.home_win = 40000000
    /\ poisson.draw = 30000000
    /\ ml_probs = PredictResult(AllClasses, MlExample)
    /\ final_probs.home_win = 43000000
    /\ final_probs.source = "poisson+dc+ml"

\* C12: with ml_probs None, _ensemble returns exactly the matrix-derived
\* home_win, draw and away_win, tagged "poisson+dc", and leaves the
\* PoissonResult as it was.
C12_PassThrough ==
    [][(pc = "_ensemble" /\ ml_probs = None) =>
          /\ final_probs' = MatrixOnly(poisson)
          /\ poisson' = poisson]_vars

\* An _ensemble call without a classifier result has returned a triple
\* which is not uniform.
C12_Witness ==
    /\ Ensembled
    /\ ml_probs = None
    /\ final_probs = MatrixOnly(poisson)
    /\ poisson.home_win = 54890000
    /\ poisson.away_win = 20600000

\* C13: when the classifier is not trained, raises, or returns a result
\* with an outcome missing, the final triple is the matrix-derived one
\* with the matrix-only tag, and ml_used (ml_probs is not None) is false.
C13_InvalidClassifierIgnored ==
    (/\ pc = "return"
     /\ \/ ~ml_trained
        \/ ml_probs = None
        \/ ml_classes # AllClasses)
    => /\ final_probs = MatrixOnly(poisson)
       /\ ml_probs = None

\* The mass of the cells of m whose index pair is in the set S, added up
\* column by column.
Mass(m, S) ==
    LET n == Shape(m)
        col(j) == SumTo([i \in 0..(n - 1) |->
                           IF <<i, j>> \in S THEN m[i][j] ELSE 0], n - 1)
    IN  SumTo([j \in 0..(n - 1) |-> col(j)], n - 1)

\* The cells in which the home side (first index) scored more, the sides
\* scored the same, the away side scored more.
HomeAhead(m) == {c \in Cells(m) : c[1] > c[2]}
Level(m)     == {c \in Cells(m) : c[1] = c[2]}
AwayAhead(m) == {c \in Cells(m) : c[1] < c[2]}

\* Half a unit of the 4th decimal, with room for the rounding of the sums.
HalfUnit4 == (One \div 20000) + 2 * Tolerance

\* x is part / total to the 4 decimals it is reported with.
IsRatio4(x, part, total) == Abs(Mul(x, total) - part) <= HalfUnit4

\* C15: p_draw is the mass of the cells i = j, p_home of the cells i > j,
\* p_away of the cells i < j (i the home goals); the three sets share no
\* cell and leave none out; the reported triple is each of the three
\* divided by their sum. With the higher rate on the home side the home
\* win is the likelier outcome.
C15_OutcomePartition ==
    DcApplied =>
        LET m      == dc_matrix
            p_home == Mass(m, HomeAhead(m))
            p_draw == Mass(m, Level(m))
            p_away == Mass(m, AwayAhead(m))
            total  == p_home + p_draw + p_away
        IN  /\ HomeAhead(m) \cup Level(m) \cup AwayAhead(m) = Cells(m)
            /\ HomeAhead(m) \cap Level(m) = {}
            /\ HomeAhead(m) \cap AwayAhead(m) = {}
            /\ Level(m) \cap AwayAhead(m) = {}
            /\ total = MatrixSum(m)
            /\ total > 0 =>
                  /\ IsRatio4(poisson.home_win, p_home, total)
                  /\ IsRatio4(poisson.draw, p_draw, total)
                  /\ IsRatio4(poisson.away_win, p_away, total)
            /\ total = 0 =>
                  poisson.home_win = 0 /\ poisson.draw = 0 /\ poisson.away_win = 0
            /\ (dc_args.max_goals = MAX_GOALS /\ dc_args.lambda_h > dc_args.lambda_a)
                  => poisson.home_win > poisson.away_win

\* A matrix built with the highest rate at home and the lowest away has
\* been aggregated: the home win dominates and every outcome has mass.
C15_Witness ==
    /\ DcApplied
    /\ dc_args.max_goals = MAX_GOALS
    /\ dc_args.lambda_h = LAMBDA_MAX
    /\ dc_args.lambda_a = LAMBDA_MIN
    /\ poisson.home_win > poisson.draw
    /\ poisson.draw > poisson.away_win
    /\ poisson.away_win > 0

\* The cells without a home goal, without an away goal, without any goal,
\* and with a goal of either side.
HomeNil(m)    == {c \in Cells(m) : c[1] = 0}
AwayNil(m)    == {c \in Cells(m) : c[2] = 0}
BothNil(m)    == {c \in Cells(m) : c[1] = 0 /\ c[2] = 0}
BothScored(m) == {c \in Cells(m) : c[1] >= 1 /\ c[2] >= 1}

\* C16: on a matrix whose entries sum to 1, both_score is
\* 1 - P(home = 0) - P(away = 0) + P(home = 0 and away = 0), not below 0,
\* and that is the mass of the cells with i >= 1 and j >= 1.
C16_BothScoreInclusionExclusion ==
    (DcApplied /\ Near(MatrixSum(dc_matrix), One)) =>
        LET m  == dc_matrix
            ie == One - Mass(m, HomeNil(m)) - Mass(m, AwayNil(m))
                      + Mass(m, BothNil(m))
        IN  /\ Abs(poisson.both_score - Max(0, ie)) <= HalfUnit4
            /\ Abs(Max(0, ie) - Mass(m, BothScored(m))) <= 2 * Tolerance

\* A default-size matrix in which both sides score with a probability
\* above one half has been aggregated.
C16_Witness ==
    /\ DcApplied
    /\ dc_args.max_goals = MAX_GOALS
    /\ Near(MatrixSum(dc_matrix), One)
    /\ dc_matrix[0][0] > 0
    /\ 2 * poisson.both_score > One
    /\ poisson.both_score < One

\* The cells with more than n goals in total.
MoreThan(m, n) == {c \in Cells(m) : c[1] + c[2] > n}

\* C17: over_1_5, over_2_5, over_3_5 are the mass of the cells with
\* i + j > 1.5, 2.5, 3.5 (more than 1, 2, 3 goals), held in [0, 1], and
\* over_1_5 >= over_2_5 >= over_3_5.
C17_OverThresholds ==
    DcApplied =>
        LET m == dc_matrix
        IN  /\ Abs(poisson.over_1_5 - Clip(Mass(m, MoreThan(m, 1)), 0, One)) <= HalfUnit4
            /\ Abs(poisson.over_2_5 - Clip(Mass(m, MoreThan(m, 2)), 0, One)) <= HalfUnit4
            /\ Abs(poisson.over_3_5 - Clip(Mass(m, MoreThan(m, 3)), 0, One)) <= HalfUnit4
            /\ poisson.over_1_5 >= poisson.over_2_5
            /\ poisson.over_2_5 >= poisson.over_3_5

\* A default-size matrix with three different over-probabilities has been
\* aggregated.
C17_Witness ==
    /\ DcApplied
    /\ dc_args.max_goals = MAX_GOALS
    /\ poisson.over_1_5 > poisson.over_2_5
    /\ poisson.over_2_5 > poisson.over_3_5
    /\ poisson.over_3_5 > 0

\* C18: with max_goals = 10 and both rates 6.0 the outer product sums to
\* more than 1 - 1e-4.
C18_TruncationNegligible ==
    (/\ DcBuilt
     /\ dc_args.max_goals = MAX_GOALS
     /\ dc_args.lambda_h = LAMBDA_MAX
     /\ dc_args.lambda_a = LAMBDA_MAX)
    => MatrixSum(dc_raw) > One - (One \div 10000)

\* The rates before the head-to-head nudge.
BaseRates == ClippedRates(home, away, weather, neutral_field)

\* rates are the base rates with lambda_h times fh and lambda_a times fa.
Nudged(fh, fa) ==
    /\ rates.h = Mul(BaseRates.h, fh)
    /\ rates.a = Mul(BaseRates.a, fa)

\* C20: with at least 3 meetings a home-win rate above 55% multiplies
\* lambda_h by 1.12 and lambda_a by 0.94, a rate below 35% multiplies
\* lambda_h by 0.88 and lambda_a by 1.06; a rate in [35%, 55%] or fewer
\* than 3 meetings leaves both rates as they were.
C20_H2hNudge ==
    pc # "calculate_poisson" =>
        /\ (h2h.matches >= 3 /\ h2h.home_win_pct > 55)
              => Nudged(112000000, 94000000)
        /\ (h2h.matches >= 3 /\ h2h.home_win_pct < 35)
              => Nudged(88000000, 106000000)
        /\ (h2h.matches < 3 \/ (35 <= h2h.home_win_pct /\ h2h.home_win_pct <= 55))
              => rates = BaseRates
        /\ poisson.lambda_h = Round2(rates.h)
        /\ poisson.lambda_a = Round2(rates.a)

\* calculate_poisson has run on a record of exactly 3 meetings with a
\* home-win rate above the band: lambda_h went up and lambda_a down.
C20_Witness ==
    /\ pc # "calculate_poisson"
    /\ h2h = [matches |-> 3, home_win_pct |-> 60]
    /\ Nudged(112000000, 94000000)
    /\ rates.h > BaseRates.h
    /\ rates.a < BaseRates.a

\* C19: teams_are_same is true exactly when the names are of one club: an
\* alias key and its canonical name compare true and the canonical name
\* normalizes to itself, a name and the same name in another letter case
\* or with a trailing legal suffix compare true, and the names of two
\* clubs compare false.
C19_SameExactlyForOneClub ==
    pc = "return" =>
        /\ <<name1, name2>> \in ALIASES => norm2 = name2
        /\ <<name1, name2>> \in SamePairs => same
        /\ <<name1, name2>> \in DifferentPairs => ~same

\* The team statistics as they stand before the missing-player steps: the
\* built statistics after the form and the shot-quality steps.
BeforeNews(built, recent, xg) == ApplyXg(ApplyWeightedForm(built, recent), xg)

\* The missing-player steps (_apply_news_factors and injury_factors) have
\* both run, the fatigue step has not.
MissingPlayersApplied == pc = "fatigue_factors"

\* stats.avg_goals_scored is at least 0.65 times, and
\* stats.avg_goals_conceded at most 1.25 times, its value in before.
WithinCaps(stats, before) ==
    /\ stats.avg_goals_scored >=
           Mul(before.avg_goals_scored, ATTACK_FLOOR) - Tolerance
    /\ stats.avg_goals_conceded <=
           Mul(before.avg_goals_conceded, One + MAX_DEFENSE_PENALTY) + Tolerance

\* C21: whatever the injured and suspended lists and the news flags are,
\* the missing-player steps multiply avg_goals_scored by no less than 0.65
\* in total and avg_goals_conceded by no more than 1.25 in total.
C21_MissingPlayerScalingCapped ==
    MissingPlayersApplied =>
        /\ WithinCaps(home, BeforeNews(built_home, recent_home, xg_home))
        /\ WithinCaps(away, BeforeNews(built_away, recent_away, xg_away))

\* _apply_weighted_form has returned for both sides.
FormApplied == applied # << >>

\* The form_score the blend of line 252 gives for the recent matches.
ExpectedForm(built, recent) ==
    IF recent = << >> THEN built.form_score
    ELSE BlendedForm(CalculateWeightedForm(recent), built.form_score)

\* C22: after _apply_weighted_form a team with recent finished matches has
\* form_score = round(0.6 * weighted form + 0.4 * raw form_score, 1), the
\* weighted form lying in [0, 100]; a team without recent matches keeps its
\* form_score.
C22_WeightedFormBlended ==
    FormApplied =>
        /\ home.form_score = ExpectedForm(built_home, recent_home)
        /\ away.form_score = ExpectedForm(built_away, recent_away)
        /\ CalculateWeightedForm(recent_home) \in 0..1000
        /\ CalculateWeightedForm(recent_away) \in 0..1000

\* The statistics a side takes into calculate_poisson when the steps run
\* once each in the order shot-quality blend, missing-player factors (news
\* flags, then injury_factors), fatigue factors.
Adjusted(built, recent, xg, team_name, news, fatigue) ==
    LET formed  == ApplyWeightedForm(built, recent)
        blended == ApplyXg(formed, xg)
        flagged == ApplyNewsFactors(blended, news)
        missing == ApplyInjuryFactors(flagged, team_name, news)
    IN  ApplyFatigueFactors(missing, fatigue)

AdjustedHome ==
    Adjusted(built_home, recent_home, xg_home, home_team, home_news, fatigue_home)
AdjustedAway ==
    Adjusted(built_away, recent_away, xg_away, away_team, away_news, fatigue_away)

\* The steps that write the goal-average fields, each for the home side and
\* then for the away side.
GoalAverageOrder ==
    << <<"_apply_xg", "home">>,           <<"_apply_xg", "away">>,
       <<"_apply_news_factors", "home">>, <<"_apply_news_factors", "away">>,
       <<"injury_factors", "home">>,      <<"injury_factors", "away">>,
       <<"fatigue_factors", "home">>,     <<"fatigue_factors", "away">> >>

\* The entries of the log that write the goal-average fields.
GoalAverageSteps ==
    LET Writes(e) == e[1] # "_apply_weighted_form"
    IN  SelectSeq(applied, Writes)

\* calculate_poisson is the next call, or has returned.
PoissonReached == pc \in {"calculate_poisson", "build_dc_matrix"}

\* C23: when calculate_poisson is called every adjustment of the goal
\* averages has run, once per team, in the order shot-quality blend,
\* missing-player factors, fatigue factors; calculate_poisson computes its
\* rates from the adjusted averages and changes them no more.
C23_AdjustmentsBeforePoisson ==
    /\ ~PoissonReached => /\ rates = [h |-> 0, a |-> 0]
                          /\ Len(GoalAverageSteps) < Len(GoalAverageOrder)
                          /\ GoalAverageSteps =
                                 SubSeq(GoalAverageOrder, 1, Len(GoalAverageSteps))
    /\ PoissonReached =>  /\ GoalAverageSteps = GoalAverageOrder
                          /\ home = AdjustedHome
                          /\ away = AdjustedAway
    /\ pc = "build_dc_matrix" =>
           rates = PoissonRates(AdjustedHome, AdjustedAway, weather, h2h,
                                neutral_field)

\* An evaluation in which all three kinds of adjustment changed the home
\* averages has reached the call after calculate_poisson.
C23_Witness ==
    /\ pc = "build_dc_matrix"
    /\ xg_home.matches >= XG_MIN_MATCHES
    /\ home_news.has_injuries
    /\ home_news.injury_players # << >>
    /\ fatigue_home = One
    /\ home.avg_goals_scored < built_home.avg_goals_scored
    /\ away.avg_goals_conceded > built_away.avg_goals_conceded
    /\ rates.h > 0

\* The number of readings whose age lies in [from, to].
CountWithin(readings, from, to) ==
    Cardinality({i \in 1..Len(readings) :
                    readings[i] >= from /\ readings[i] <= to})

\* No 60-second stretch holds more than limit_per_minute admissions for a
\* host: none of those that end at an admission does.  (admitted keeps an
\* admission for 60 seconds, so the admissions of a 60-second stretch are
\* all in it at the moment of the last of them.)
AdmissionLimit ==
    \A h \in Hosts : \A i \in 1..Len(admitted[h]) :
        CountWithin(admitted[h], admitted[h][i], admitted[h][i] + WINDOW)
            <= LimitPerMinute

\* A step of a thread leaves the window of every host but the thread's own
\* as it is.
HostIsolation ==
    \A t \in Threads :
        thread_pc'[t] # thread_pc[t] =>
            \A h \in Hosts \ {thread_host'[t]} :
                /\ (h \in DOMAIN windows') = (h \in DOMAIN windows)
                /\ WindowOf(windows', h) = WindowOf(windows, h)

\* C24: under any interleaving of threads calling wait_until_allowed(host,
\* L), no 60-second window holds more than L admissions for one host, and a
\* host's window is changed only by calls for that host.
C24_SlidingWindowLimit == []AdmissionLimit /\ [][HostIsolation]_vars

\* One host has its L admissions of the minute and a caller waiting, while
\* the other host's window holds a reading as well.
C24_Witness ==
    \E h \in Hosts, t \in Threads :
        /\ Len(admitted[h]) = LimitPerMinute
        /\ thread_pc[t] = "sleep"
        /\ thread_host[t] = h
        /\ \E g \in Hosts \ {h} : g \in DOMAIN windows /\ windows[g] # << >>

\* C27: with limit_per_minute >= 1 and time advancing, every thread that
\* calls wait_until_allowed for a host is eventually admitted and returns,
\* also while other threads keep asking for admissions for the same host.
C27_NoCallerStarved ==
    \A t \in Threads :
        (thread_pc[t] \in {"wait_until_allowed", "sleep"})
            ~> (thread_pc[t] = "idle")

\* C25: every request attempt of BaseCollector.get, each retry included,
\* has its own admission by the rate limiter, so that no 60-second window
\* holds more requests to a host than RATE_LIMIT_PER_MINUTE.
C25_RequestsWithinLimit ==
    \A h \in Hosts : \A i \in 1..Len(sent[h]) :
        CountWithin(sent[h], sent[h][i], sent[h][i] + WINDOW) <= LimitPerMinute

\* An attempt that ended in 429, 500, 502, 503 or 504, in a timeout or in a
\* connection error.
FailedRetryably(outcome) ==
    IF "status_code" \in DOMAIN outcome
    THEN outcome.status_code \in {429, 500, 502, 503, 504}
    ELSE outcome.raised \in {"Timeout", "ConnectionError"}

\* The attempts of a get call so far: at most retries, every one but the
\* last a retryable failure, and nothing returned while the call runs.
AttemptsBounded(t) ==
    /\ Len(outcomes[t]) <= Retries
    /\ \A i \in 1..(Len(outcomes[t]) - 1) : FailedRetryably(outcomes[t][i])
    /\ thread_pc[t] \in {"wait_until_allowed", "sleep", "session.get", "backoff"}
           => response[t] = NoResult
    /\ thread_pc[t] = "backoff" => FailedRetryably(outcomes[t][Len(outcomes[t])])
    /\ thread_pc[t] = "session.get" /\ outcomes[t] # << >>
           => FailedRetryably(outcomes[t][Len(outcomes[t])])

\* What a get call returns: None after retries retryable failures in a
\* row, otherwise the response of the attempt that ended the call, which
\* has status 200 or a status that is not retryable.
ReturnsAsSpecified(t) ==
    thread_pc[t] = "return" =>
        LET n == Len(outcomes[t])
        IN  IF n = Retries /\ FailedRetryably(outcomes[t][n])
            THEN response[t] = None
            ELSE /\ n >= 1
                 /\ ~FailedRetryably(outcomes[t][n])
                 /\ response[t] = outcomes[t][n]

NoRunUnderWay == \A r \in Runs : run_pc[r] = "idle"

\* C28: after any sequence of runs of ELOUpdater, overlapping or
\* interrupted between update_elo and _log_update, the result of a match
\* has been written to team_elo at most once, and once exactly if
\* elo_updates has a row for the match.
C28_AppliedOnceIffLogged ==
    NoRunUnderWay =>
        \A match_id \in MatchIds :
            /\ Applications(match_id) <= 1
            /\ Applications(match_id) = 1 <=> match_id \in elo_updates

\* C29: a call for a key whose latest _cache_set is at most max_age_hours
\* old gets the stored value from _cache_get and makes no request, whatever
\* job_clean_cache has done in between; a call for a key stored longer ago
\* gets nothing from _cache_get.
C29_FreshEntryServed ==
    last_call.was_stored =>
        IF last_call.fresh
        THEN /\ last_call.cached = last_call.data
             /\ ~last_call.fetched
        ELSE last_call.cached = PyNone

\* The schema change of a migration is in place.
InPlace(mid) ==
    CASE mid = "m001_team_elo_add_league" ->
             "team_elo" \in db.tables /\ "league" \in db.columns
      [] mid = "m002_team_elo_add_team_id" ->
             "team_id" \in db.columns /\ "te_team_id" \in db.indexes
      [] mid = "m003_collector_cache_index" ->
             "collector_cache" \in db.tables /\ "cc_ts" \in db.indexes
      [] mid = "m004_elo_updates_indexes" ->
             "elo_updates" \in db.tables /\ {"eu_match_id", "eu_teams"} \subseteq db.indexes

=============================================================================
